---------------------------- MODULE Spec2Model ----------------------------
(***************************************************************************)
(* Model of the seeding service of the CloudUnify Pro backend              *)
(* (src/Backend/src/app.js, lines 158-692: services/seed.js) over the      *)
(* PostgreSQL schema declared by ensureSchema (src/Backend/src/db/index.js)*)
(*                                                                         *)
(* Values.  A JavaScript value of a string-typed field is a TLA+ string;   *)
(* UNDEF stands for undefined/null and NONSTR for a value whose typeof is  *)
(* not 'string'.  An id is an integer: NoId is an absent id, BadId a value *)
(* that fails isUUIDv4, a positive number a string matching the UUIDv4     *)
(* pattern (small ones supplied by callers, above GenBase from randomUUID).  *)
(* A timestamp is an integer: NoTime absent/unparseable, Now the clock.    *)
(***************************************************************************)
EXTENDS Integers, Sequences, FiniteSets, TLC

\* ------------------------------------------------------------------ bounds
MaxCalls == 2         \* calls started in one behaviour
MaxBigChunks == 2     \* full chunks in the bodies of SpecChunk
MaxChunkCalls == 1    \* calls started in one behaviour of SpecChunk
MaxRequests == 1      \* requests and calls started in one behaviour of SpecApi
MaxMergeCalls == 2    \* calls started in one behaviour of SpecMerge

\* ------------------------------------------------------- program constants
BatchSize == 100
MaxErrors == 10
NoId == 0
BadId == -1
GenBase == 1000
NoTime == 0
Now == 9
NoNum == -1
UNDEF == "<undefined>"
NONSTR == "<non-string>"

ENTITIES == {"users", "organizations", "resources"}

SeedOrderMutant == <<"users", "organizations", "resources">>
SeedOrder == <<"organizations", "users", "resources">>

allowedProvidersMutant == {"AWS", "Azure", "GCP", "DigitalOcean"}
allowedProviders == {"AWS", "Azure", "GCP"}

\* ----------------------------------------------------------- JS predicates
IsString(v) == v # UNDEF /\ v # NONSTR
Truthy(v) == v # UNDEF /\ v # ""

\* /^[0-9a-f]{8}-...-4...-[89ab]...$/i : the positive ids are the matching strings
isUUIDv4(s) == s > 0

\* /^[^\s@]+@[^\s@]+\.[^\s@]+$/ : the strings of the model that match
EmailShaped == {"a@x.io", "b@x.io"}
isEmail(s) == IsString(s) /\ s \in EmailShaped

toISODateOrNow(val) == IF val = NoTime THEN Now ELSE val

\* bcrypt.hashSync(password, 10): an opaque hash of the plaintext
BcryptHash(pw) == IF pw = "pw1" THEN "$2a$10$pw1" ELSE "$2a$10$other"

Min(a, b) == IF a < b THEN a ELSE b

\* chunkArray(arr, size): consecutive slices of at most size elements
chunkArrayMutant(arr, size) == IF Len(arr) = 0 THEN <<>> ELSE <<arr>>
RECURSIVE chunkArray(_, _)
chunkArray(arr, size) ==
  IF Len(arr) = 0 THEN <<>>
  ELSE <<SubSeq(arr, 1, Min(size, Len(arr)))>>
       \o chunkArray(SubSeq(arr, Min(size, Len(arr)) + 1, Len(arr)), size)

\* randomUUID(): a UUIDv4 distinct from every id in use
RECURSIVE FreshFrom(_, _)
FreshFrom(k, used) == IF (GenBase + k) \in used THEN FreshFrom(k + 1, used) ELSE GenBase + k
randomUUID(used) == FreshFrom(1, used)


\* ------------------------------------------------------ validateAndNormalize
\* One organizations record (the forEach body): the id is kept when it is a
\* UUIDv4 string and generated otherwise, before the name is validated.
NormOrganization(obj, used) ==
  LET id == IF obj.id # NoId /\ obj.id # BadId /\ isUUIDv4(obj.id) THEN obj.id ELSE randomUUID(used)
      out == [id |-> id, name |-> obj.name, createdAt |-> toISODateOrNow(obj.createdAt)]
  IN  IF ~Truthy(out.name) \/ ~IsString(out.name)
      THEN [ok |-> FALSE, error |-> "Invalid organization.name", out |-> out]
      ELSE [ok |-> TRUE, error |-> "", out |-> out]

\* One users record: no id is generated here, __hadId records the decision.
NormUser(obj) ==
  LET hadId == obj.id # NoId /\ obj.id # BadId /\ isUUIDv4(obj.id)
      out == [id |-> IF hadId THEN obj.id ELSE NoId,
              email |-> obj.email,
              name |-> obj.name,
              role |-> obj.role,
              organizationId |->
                IF obj.organizationId # NoId /\ obj.organizationId # BadId /\ isUUIDv4(obj.organizationId)
                THEN obj.organizationId ELSE NoId,
              createdAt |-> toISODateOrNow(obj.createdAt),
              hadId |-> hadId,
              password |-> IF IsString(obj.password) THEN obj.password ELSE UNDEF,
              passwordHash |-> IF IsString(obj.passwordHash) THEN obj.passwordHash ELSE UNDEF]
  IN  IF ~isEmail(out.email) THEN [ok |-> FALSE, error |-> "Invalid user.email", out |-> out]
      ELSE IF ~Truthy(out.name) \/ ~IsString(out.name)
      THEN [ok |-> FALSE, error |-> "Invalid user.name", out |-> out]
      ELSE IF ~Truthy(out.role) \/ ~IsString(out.role)
      THEN [ok |-> FALSE, error |-> "Invalid user.role", out |-> out]
      ELSE [ok |-> TRUE, error |-> "", out |-> out]

\* One resources record.
NormResourceMutant(obj, used) ==
  [ok |-> TRUE, error |-> "",
   out |-> [id |-> randomUUID(used), provider |-> obj.provider, type |-> obj.type,
            name |-> obj.name, tags |-> "{}", cost |-> 0, status |-> obj.status,
            createdAt |-> toISODateOrNow(obj.createdAt)]]
NormResource(obj, used) ==
  LET id == IF obj.id # NoId /\ obj.id # BadId /\ isUUIDv4(obj.id) THEN obj.id ELSE randomUUID(used)
      provider == IF IsString(obj.provider) THEN obj.provider ELSE UNDEF
      providerOk == Truthy(provider) /\ provider \in allowedProviders
      tagsObj == IF obj.tags # UNDEF /\ obj.tags # NONSTR THEN obj.tags ELSE "{}"
      statusStr == IF IsString(obj.status) THEN obj.status ELSE UNDEF
      out == [id |-> id, provider |-> provider, type |-> obj.type, name |-> obj.name,
              tags |-> tagsObj, cost |-> IF obj.cost = NoNum THEN 0 ELSE obj.cost,
              status |-> statusStr, createdAt |-> toISODateOrNow(obj.createdAt)]
  IN  IF ~providerOk
      THEN [ok |-> FALSE, error |-> "Invalid resource.provider (must be 'AWS'|'Azure'|'GCP')", out |-> out]
      ELSE IF ~Truthy(out.type) \/ ~IsString(out.type)
      THEN [ok |-> FALSE, error |-> "Invalid resource.type", out |-> out]
      ELSE IF ~Truthy(out.name) \/ ~IsString(out.name)
      THEN [ok |-> FALSE, error |-> "Invalid resource.name", out |-> out]
      ELSE IF ~Truthy(out.status)
      THEN [ok |-> FALSE, error |-> "Invalid resource.status", out |-> out]
      ELSE [ok |-> TRUE, error |-> "", out |-> out]

NormRecord(entity, obj, used) ==
  IF entity = "organizations" THEN NormOrganization(obj, used)
  ELSE IF entity = "users" THEN NormUser(obj)
  ELSE NormResource(obj, used)

\* The body of records.forEach((rec, idx) => ...) for the record of index i
\* (1-based here, the error carries the 0-based one): what it pushes to valid
\* and to errors, and the ids in use after it.
NormStep(entity, records, i, used) ==
  LET n == NormRecord(entity, records[i], used)
  IN  IF n.ok
      THEN [valid |-> <<n.out>>, errors |-> <<>>,
            used |-> IF entity = "users" THEN used ELSE used \cup {n.out.id}]
      ELSE [valid |-> <<>>, errors |-> <<[index |-> i - 1, error |-> n.error]>>,
            used |-> used]

\* records.forEach over the records lo..hi in input order: the pushes of the
\* left half followed by those of the right half, which sees the ids the left
\* half took (halving keeps the evaluation depth logarithmic in the number of
\* records).
RECURSIVE NormLoopMutant(_, _, _, _, _)
NormLoopMutant(entity, records, lo, hi, used) ==
  IF lo > hi THEN [valid |-> <<>>, errors |-> <<>>, used |-> used]
  ELSE LET first == NormStep(entity, records, lo, used)
       IN  IF first.errors # <<>> THEN first
           ELSE LET rest == NormLoopMutant(entity, records, lo + 1, hi, first.used)
                IN  [valid |-> first.valid \o rest.valid, errors |-> rest.errors,
                     used |-> rest.used]
RECURSIVE NormLoop(_, _, _, _, _)
NormLoop(entity, records, lo, hi, used) ==
  IF lo > hi THEN [valid |-> <<>>, errors |-> <<>>, used |-> used]
  ELSE IF lo = hi THEN NormStep(entity, records, lo, used)
  ELSE LET mid == (lo + hi) \div 2
           left == NormLoop(entity, records, lo, mid, used)
           right == NormLoop(entity, records, mid + 1, hi, left.used)
       IN  [valid |-> left.valid \o right.valid, errors |-> left.errors \o right.errors,
            used |-> right.used]

\* validateAndNormalize(entity, records); src = [arr, recs], arr = Array.isArray.
validateAndNormalize(entity, src, used) ==
  IF ~src.arr
  THEN [valid |-> <<>>, errors |-> <<[index |-> -1, error |-> "Records payload must be an array"]>>]
  ELSE IF entity \in ENTITIES
  THEN LET r == NormLoop(entity, src.recs, 1, Len(src.recs), used)
       IN  [valid |-> r.valid, errors |-> r.errors]
  ELSE [valid |-> <<>>, errors |-> <<[index |-> -1, error |-> "Unsupported entity"]>>]



\* ------------------------------------------------------------- the store
\* A table is the set of its rows.  The schema of ensureSchema: id is the
\* primary key of each table, organizations.name and users.email are UNIQUE,
\* users.organization_id REFERENCES organizations(id), resources.provider is
\* CHECKed.  A NULL password_hash is UNDEF.

\* The statements the upserters issue, by their ON CONFLICT target and SET list.
StatementKinds == {"organizations", "usersById", "usersByEmail", "resources"}

TableOf(sk) == IF sk \in {"usersById", "usersByEmail"} THEN "users" ELSE sk

\* ON CONFLICT (id) / ON CONFLICT (email): the arbiter column of a statement.
ArbiterMutant(sk, row) == row.id
Arbiter(sk, row) == IF sk = "usersByEmail" THEN row.email ELSE row.id

\* DO UPDATE SET ...: the existing row t merged with the proposed row r
\* (EXCLUDED).  Columns outside the SET list keep the existing value.
MergeHashMutant(old, new) == new
MergeHash(old, new) == IF new # UNDEF THEN new ELSE old

DoUpdateMutant(sk, t, r) ==
  IF sk = "organizations" THEN [t EXCEPT !.name = r.name, !.createdAt = r.createdAt]
  ELSE IF sk = "usersById"
  THEN [t EXCEPT !.email = r.email, !.name = r.name, !.role = r.role,
                 !.organizationId = r.organizationId,
                 !.passwordHash = MergeHash(t.passwordHash, r.passwordHash)]
  ELSE IF sk = "usersByEmail"
  THEN [t EXCEPT !.name = r.name, !.role = r.role,
                 !.organizationId = r.organizationId,
                 !.passwordHash = MergeHash(t.passwordHash, r.passwordHash)]
  ELSE [t EXCEPT !.provider = r.provider, !.type = r.type, !.name = r.name,
                 !.tags = r.tags, !.cost = r.cost, !.status = r.status,
                 !.createdAt = r.createdAt]
DoUpdate(sk, t, r) ==
  IF sk = "organizations" THEN [t EXCEPT !.name = r.name]
  ELSE IF sk = "usersById"
  THEN [t EXCEPT !.email = r.email, !.name = r.name, !.role = r.role,
                 !.organizationId = r.organizationId,
                 !.passwordHash = MergeHash(t.passwordHash, r.passwordHash)]
  ELSE IF sk = "usersByEmail"
  THEN [t EXCEPT !.name = r.name, !.role = r.role,
                 !.organizationId = r.organizationId,
                 !.passwordHash = MergeHash(t.passwordHash, r.passwordHash)]
  ELSE [t EXCEPT !.provider = r.provider, !.type = r.type, !.name = r.name,
                 !.tags = r.tags, !.cost = r.cost, !.status = r.status]

\* The constraints of the schema a row must meet against the other rows of its
\* table (others) and the organizations table.
ConstraintsOk(sk, row, others, orgIds) ==
  /\ \A o \in others : o.id # row.id
  /\ sk = "organizations" => \A o \in others : o.name # row.name
  /\ TableOf(sk) = "users" =>
       /\ \A o \in others : o.email # row.email
       /\ row.organizationId # NoId => row.organizationId \in orgIds
  /\ sk = "resources" => row.provider \in allowedProviders

\* INSERT ... VALUES rows ON CONFLICT (arbiter) DO UPDATE ... RETURNING (xmax = 0):
\* the proposed rows in order.  A row with no arbiter conflict is inserted
\* (inserted = true); one that conflicts updates the existing row (inserted =
\* false), unless this statement already inserted or updated that row
\* ("ON CONFLICT DO UPDATE command cannot affect row a second time").  Any
\* constraint violation fails the whole statement.
\* acc = [ok, table, touched, flags].
UpsertRowMutant(sk, r, acc, orgIds) ==
  IF ~acc.ok THEN acc
  ELSE
    LET hit == {t \in acc.table : Arbiter(sk, t) = Arbiter(sk, r)}
    IN  IF hit = {}
        THEN IF ConstraintsOk(sk, r, acc.table, orgIds)
             THEN [ok |-> TRUE, table |-> acc.table \cup {r},
                   touched |-> acc.touched \cup {r.id},
                   flags |-> Append(acc.flags, TRUE)]
             ELSE [acc EXCEPT !.ok = FALSE]
        ELSE [acc EXCEPT !.flags = Append(acc.flags, FALSE)]
UpsertRow(sk, r, acc, orgIds) ==
  IF ~acc.ok THEN acc
  ELSE
    LET hit == {t \in acc.table : Arbiter(sk, t) = Arbiter(sk, r)}
    IN  IF hit = {}
        THEN IF ConstraintsOk(sk, r, acc.table, orgIds)
             THEN [ok |-> TRUE, table |-> acc.table \cup {r},
                   touched |-> acc.touched \cup {r.id},
                   flags |-> Append(acc.flags, TRUE)]
             ELSE [acc EXCEPT !.ok = FALSE]
        ELSE LET t == CHOOSE x \in hit : TRUE
                 m == DoUpdate(sk, t, r)
             IN  IF t.id \in acc.touched \/ ~ConstraintsOk(sk, m, acc.table \ {t}, orgIds)
                 THEN [acc EXCEPT !.ok = FALSE]
                 ELSE [ok |-> TRUE, table |-> (acc.table \ {t}) \cup {m},
                       touched |-> acc.touched \cup {t.id},
                       flags |-> Append(acc.flags, FALSE)]

\* The proposed rows lo..hi of the VALUES list, in order (the range is halved,
\* the left half first, to keep the evaluation depth logarithmic).
RECURSIVE UpsertLoop(_, _, _, _, _, _)
UpsertLoop(sk, rows, lo, hi, acc, orgIds) ==
  IF lo > hi THEN acc
  ELSE IF lo = hi THEN UpsertRow(sk, rows[lo], acc, orgIds)
  ELSE LET mid == (lo + hi) \div 2
           left == UpsertLoop(sk, rows, lo, mid, acc, orgIds)
       IN  IF ~left.ok THEN left ELSE UpsertLoop(sk, rows, mid + 1, hi, left, orgIds)

\* query(sql, params) of one upsert statement: atomic, the store is unchanged
\* when it fails.  Returns [ok, db, flags]; flags are result.rows[..].inserted.
ExecStatementMutant(store, sk, rows) ==
  LET tn == TableOf(sk)
      r == UpsertLoop(sk, rows, 1, Len(rows),
             [ok |-> TRUE, table |-> store[tn], touched |-> {}, flags |-> <<>>],
             {o.id : o \in store.organizations})
  IN  IF r.ok THEN [ok |-> TRUE, db |-> [store EXCEPT ![tn] = r.table], flags |-> r.flags]
      ELSE [ok |-> FALSE, db |-> [store EXCEPT ![tn] = r.table], flags |-> <<>>]
ExecStatement(store, sk, rows) ==
  LET tn == TableOf(sk)
      r == UpsertLoop(sk, rows, 1, Len(rows),
             [ok |-> TRUE, table |-> store[tn], touched |-> {}, flags |-> <<>>],
             {o.id : o \in store.organizations})
  IN  IF r.ok THEN [ok |-> TRUE, db |-> [store EXCEPT ![tn] = r.table], flags |-> r.flags]
      ELSE [ok |-> FALSE, db |-> store, flags |-> <<>>]


\* ------------------------------------------------------- fixture loading
\* The file system as findProjdefnRoot and walkDirCollectJsonFiles see it:
\* for each place a .projdefn directory is looked for, whether it is a
\* directory and the .json files the walk enumerates in it, in order.  A file
\* is [mentions, shape, items]: the entity names its lower-cased path contains,
\* what JSON.parse gives ("array", "items": an object with an items array,
\* "other", "invalid": a parse failure) and the array's records.
NoDir == [isDir |-> FALSE, files |-> <<>>]

\* findProjdefnRoot: PROJDEFN_DIR, then the ascent from __dirname, then cwd.
findProjdefnRoot(fsys) ==
  IF fsys.explicit.isDir THEN fsys.explicit
  ELSE IF fsys.ascend.isDir THEN fsys.ascend
  ELSE IF fsys.cwd.isDir THEN fsys.cwd
  ELSE NoDir

RECURSIVE ConcatFilesMutant(_, _, _)
ConcatFilesMutant(files, i, items) ==
  IF i > Len(files) THEN items
  ELSE IF files[i].shape = "invalid" THEN items
  ELSE ConcatFilesMutant(files, i + 1,
         IF files[i].shape \in {"array", "items"} THEN items \o files[i].items ELSE items)
RECURSIVE ConcatFiles(_, _, _)
ConcatFiles(files, i, items) ==
  IF i > Len(files) THEN items
  ELSE ConcatFiles(files, i + 1,
         IF files[i].shape \in {"array", "items"} THEN items \o files[i].items ELSE items)

\* loadEntityFromProjdefn(entity)
loadEntityFromProjdefnMutant(fsys, entity) ==
  <<[id |-> NoId, name |-> "Default", createdAt |-> NoTime, email |-> "a@x.io", role |-> "user",
     organizationId |-> NoId, password |-> UNDEF, passwordHash |-> UNDEF, provider |-> "AWS",
     type |-> "EC2", tags |-> UNDEF, cost |-> NoNum, status |-> "running"]>>
loadEntityFromProjdefn(fsys, entity) ==
  LET projRoot == findProjdefnRoot(fsys)
  IN  IF ~projRoot.isDir THEN <<>>
      ELSE LET matched == SelectSeq(projRoot.files, LAMBDA f : entity \in f.mentions)
           IN  ConcatFiles(matched, 1, <<>>)

\* ------------------------------------------------------------ the upserters
\* The hash bound to the password_hash parameter of one users record.
HashedMutant(r) ==
  IF IsString(r.password) /\ r.password # "" THEN BcryptHash(r.password)
  ELSE IF IsString(r.passwordHash) /\ r.passwordHash # "" THEN r.passwordHash
  ELSE UNDEF
Hashed(r) ==
  IF IsString(r.passwordHash) /\ r.passwordHash # "" THEN r.passwordHash
  ELSE IF IsString(r.password) /\ r.password # "" THEN BcryptHash(r.password)
  ELSE UNDEF

\* Whether the conditional above evaluates bcrypt.hashSync for the record.
HashInvoked(r) ==
  ~(IsString(r.passwordHash) /\ r.passwordHash # "") /\ IsString(r.password) /\ r.password # ""

OrgParams(r) == [id |-> r.id, name |-> r.name, createdAt |-> r.createdAt]

UserParams(r, id) ==
  [id |-> id, email |-> r.email, name |-> r.name, role |-> r.role,
   organizationId |-> r.organizationId, createdAt |-> r.createdAt,
   passwordHash |-> Hashed(r)]

ResourceParams(r) ==
  [id |-> r.id, provider |-> r.provider, type |-> r.type, name |-> r.name,
   tags |-> r.tags, cost |-> r.cost, status |-> r.status, createdAt |-> r.createdAt]

\* withIds of upsertUsersByEmail: each record of the batch gets a fresh id.
RECURSIVE WithIds(_, _, _, _)
WithIds(batch, i, used, out) ==
  IF i > Len(batch) THEN out
  ELSE LET id == IF batch[i].id # NoId /\ isUUIDv4(batch[i].id) THEN batch[i].id
                 ELSE randomUUID(used)
       IN  WithIds(batch, i + 1, used \cup {id}, Append(out, UserParams(batch[i], id)))

\* The parameter rows of the statement one batch becomes.
StatementRows(sk, batch, used) ==
  IF sk = "organizations" THEN [i \in 1..Len(batch) |-> OrgParams(batch[i])]
  ELSE IF sk = "usersById" THEN [i \in 1..Len(batch) |-> UserParams(batch[i], batch[i].id)]
  ELSE IF sk = "usersByEmail" THEN WithIds(batch, 1, used, <<>>)
  ELSE [i \in 1..Len(batch) |-> ResourceParams(batch[i])]

\* The statements of one upserter: one per chunk of batchSize records, none
\* for an empty list.
StatementsMutant(sk, records) ==
  IF Len(records) = 0 THEN <<[sk |-> sk, batch |-> <<>>]>>
  ELSE LET chunks == chunkArray(records, BatchSize)
       IN  [i \in 1..Len(chunks) |-> [sk |-> sk, batch |-> chunks[i]]]
Statements(sk, records) ==
  LET chunks == chunkArray(records, BatchSize)
  IN  [i \in 1..Len(chunks) |-> [sk |-> sk, batch |-> chunks[i]]]

\* The statements seedEntity issues for the valid records, in order: for users
\* the id-keyed pass (withId) and then the email-keyed pass (withoutId).
UpsertPlanMutant(entity, valid) ==
  IF entity = "organizations" THEN Statements("organizations", valid)
  ELSE IF entity = "users"
  THEN Statements("usersByEmail", SelectSeq(valid, LAMBDA u : ~u.hadId))
       \o Statements("usersById", SelectSeq(valid, LAMBDA u : u.hadId))
  ELSE IF entity = "resources" THEN Statements("resources", valid)
  ELSE <<>>
UpsertPlan(entity, valid) ==
  IF entity = "organizations" THEN Statements("organizations", valid)
  ELSE IF entity = "users"
  THEN Statements("usersById", SelectSeq(valid, LAMBDA u : u.hadId))
       \o Statements("usersByEmail", SelectSeq(valid, LAMBDA u : ~u.hadId))
  ELSE IF entity = "resources" THEN Statements("resources", valid)
  ELSE <<>>

\* The rows an upserter counts as inserted: those the store returned with
\* inserted = true (result.rows.filter(x => x.inserted === true)).  The
\* mutant classifies by a look at the store as it was when the call began.
ClassifyMutant(store0, sk, rows, flags) ==
  [i \in 1..Len(flags) |-> \A t \in store0[TableOf(sk)] : Arbiter(sk, t) # Arbiter(sk, rows[i])]
Classify(store0, sk, rows, flags) == flags

CountTrueMutant(flags) == Len(flags)
CountTrue(flags) == Cardinality({i \in 1..Len(flags) : flags[i]})


\* ------------------------------------------------------------------ state
VARIABLES
  db,      \* the store: [organizations, users, resources], each a set of rows
  calls,   \* per caller: the seedEntity / seedAll call it has in progress
  fs,      \* the .projdefn directories of the file system
  env,     \* process.env: [nodeEnv, seedAdminToken]
  ncalls   \* calls started so far

vars == <<db, calls, fs, env, ncalls>>

NoBody == [arr |-> FALSE, recs |-> <<>>]
ArrayBody(recs) == [arr |-> TRUE, recs |-> recs]
NoPayload == [organizations |-> NoBody, users |-> NoBody, resources |-> NoBody]
Zero3 == [inserted |-> 0, updated |-> 0, skipped |-> 0]
NoRes == [inserted |-> 0, updated |-> 0, skipped |-> 0, errors |-> <<>>]
EmptyDb == [organizations |-> {}, users |-> {}, resources |-> {}]

\* A call.  op "seedEntity" | "seedAll"; pc is the await it is suspended at
\* ("schemaAll": seedAll's ensureSchema, "schema": seedEntity's ensureSchema,
\* "upsert": the query of the next batch) or how it ended ("done": returned,
\* "failed": threw).  entity/body are seedEntity's arguments, payload seedAll's,
\* idx the position in seedAll's order; queue the statements still to issue;
\* inserted/updated/skipped/errors seedEntity's locals, res its return value;
\* results/total seedAll's.  History, read by the properties only: stmts (each
\* upsert statement issued: [sk, batch, rows, ok, flags], flags as the
\* upserter classified the returned rows), db0 (the store when the
\* call started), prev (how this caller's previous call ended), io (the
\* awaits on the store so far: ensureSchema and the queries), src (where the
\* current seedEntity took its records: "body" | "fixtures") and loaded (the
\* calls of the fixture loader so far).  A call made for an HTTP request
\* carries the request (req: route, X-Seed-Token, :entity) and the status a
\* guard or controller answered at once (status, 0 when the service was
\* called); counts/pending are getSeedCounts' result and outstanding queries.
NoReq == [route |-> "none", token |-> "", entity |-> "none"]
NoCounts == [organizations |-> 0, users |-> 0, resources |-> 0, total |-> 0]
NoPrev == [op |-> "none", entity |-> "none", body |-> NoBody, pc |-> "idle", res |-> NoRes,
           db0 |-> EmptyDb]
IdleCall ==
  [op |-> "none", pc |-> "idle", entity |-> "none", body |-> NoBody, payload |-> NoPayload,
   idx |-> 0, queue |-> <<>>, inserted |-> 0, updated |-> 0, skipped |-> 0, errors |-> <<>>,
   res |-> NoRes, results |-> <<>>, total |-> Zero3, stmts |-> <<>>, db0 |-> EmptyDb,
   prev |-> NoPrev, io |-> 0, src |-> "none", loaded |-> 0,
   req |-> NoReq, status |-> 0, counts |-> NoCounts, pending |-> {}]

Summary(call) ==
  [op |-> call.op, entity |-> call.entity, body |-> call.body, pc |-> call.pc, res |-> call.res,
   db0 |-> call.db0]

RECURSIVE QueueIds(_, _)
QueueIds(queue, i) ==
  IF i > Len(queue) THEN {}
  ELSE {queue[i].batch[j].id : j \in 1..Len(queue[i].batch)} \cup QueueIds(queue, i + 1)

\* Every id in use: randomUUID never returns one of them.
UsedIds ==
  {r.id : r \in db.organizations} \cup {r.id : r \in db.users} \cup {r.id : r \in db.resources}
  \cup UNION {QueueIds(calls[c].queue, 1) : c \in DOMAIN calls}

\* seedEntity's entry: an unsupported kind returns at once, any other awaits
\* ensureSchema.
EnterSeedEntityMutant(call, entity, body) ==
  [call EXCEPT !.entity = entity, !.body = body, !.pc = "schema", !.queue = <<>>,
               !.inserted = 0, !.updated = 0, !.skipped = 0, !.errors = <<>>]
EnterSeedEntity(call, entity, body) ==
  IF entity \notin ENTITIES
  THEN [call EXCEPT !.entity = entity, !.body = body, !.pc = "returned",
                    !.res = [inserted |-> 0, updated |-> 0, skipped |-> 0,
                             errors |-> <<[index |-> -1, error |-> "Unsupported entity"]>>]]
  ELSE [call EXCEPT !.entity = entity, !.body = body, !.pc = "schema", !.queue = <<>>,
                    !.inserted = 0, !.updated = 0, !.skipped = 0, !.errors = <<>>]

\* seedAll's loop: the body of one kind.
PayloadBody(payload, entity) == IF payload[entity].arr THEN payload[entity] ELSE NoBody

\* seedAll's running totals after one more result (tInserted += res.inserted,
\* tUpdated += res.updated, tSkipped += res.skipped).
AddTotalsMutant(total, res) ==
  [inserted |-> total.inserted + res.inserted, updated |-> total.updated + res.updated,
   skipped |-> total.skipped]
AddTotals(total, res) ==
  [inserted |-> total.inserted + res.inserted, updated |-> total.updated + res.updated,
   skipped |-> total.skipped + res.skipped]

\* What follows seedEntity's return of res: the call is over, or seedAll
\* records the result, adds it to the totals and goes on to the next kind of
\* its order.
ReturnedMutant(call, res) ==
  IF call.op = "seedEntity" THEN [call EXCEPT !.pc = "done", !.res = res]
  ELSE LET acc == [call EXCEPT !.res = res,
                     !.results = Append(call.results, res),
                     !.total = AddTotals(call.total, res)]
       IN  IF call.idx >= Len(SeedOrder) \/ res.inserted + res.updated = 0
           THEN [acc EXCEPT !.pc = "done"]
           ELSE EnterSeedEntity([acc EXCEPT !.idx = call.idx + 1],
                                SeedOrder[call.idx + 1],
                                PayloadBody(call.payload, SeedOrder[call.idx + 1]))
RECURSIVE Returned(_, _)
Returned(call, res) ==
  IF call.op = "seedEntity" THEN [call EXCEPT !.pc = "done", !.res = res]
  ELSE LET acc == [call EXCEPT !.res = res,
                     !.results = Append(call.results, res),
                     !.total = AddTotals(call.total, res)]
       IN  IF call.idx >= Len(SeedOrder) THEN [acc EXCEPT !.pc = "done"]
           ELSE LET nxt == EnterSeedEntity([acc EXCEPT !.idx = call.idx + 1],
                                           SeedOrder[call.idx + 1],
                                           PayloadBody(call.payload, SeedOrder[call.idx + 1]))
                IN  IF nxt.pc = "returned" THEN Returned(nxt, nxt.res) ELSE nxt

\* seedEntity's return value from its locals.
ResultMutant(call) ==
  [inserted |-> call.inserted, updated |-> call.updated, skipped |-> call.skipped,
   errors |-> call.errors]
Result(call) ==
  [inserted |-> call.inserted, updated |-> call.updated, skipped |-> call.skipped,
   errors |-> SubSeq(call.errors, 1, Min(MaxErrors, Len(call.errors)))]

CanStart(c) == calls[c].pc \in {"idle", "done", "failed"}

Fresh(c) == [IdleCall EXCEPT !.db0 = db, !.prev = Summary(calls[c])]

\* seedEntity(entity, bodyRecords) is called.
StartSeedEntity(c, entity, body) ==
  /\ CanStart(c)
  /\ LET call == EnterSeedEntity([Fresh(c) EXCEPT !.op = "seedEntity"], entity, body)
     IN  calls' = [calls EXCEPT ![c] = IF call.pc = "returned" THEN Returned(call, call.res) ELSE call]
  /\ ncalls' = ncalls + 1
  /\ UNCHANGED <<db, fs, env>>

\* seedAll(payloadMap) is called: it awaits its own ensureSchema first.
StartSeedAll(c, payload) ==
  /\ CanStart(c)
  /\ calls' = [calls EXCEPT ![c] = [Fresh(c) EXCEPT !.op = "seedAll", !.payload = payload,
                                                   !.pc = "schemaAll"]]
  /\ ncalls' = ncalls + 1
  /\ UNCHANGED <<db, fs, env>>

\* seedAll's ensureSchema resolves (the tables exist: its DDL changes no row)
\* and the loop calls seedEntity for the first kind of the order.
EnsureSchemaAll(c) ==
  /\ calls[c].pc = "schemaAll"
  /\ LET call == EnterSeedEntity([calls[c] EXCEPT !.idx = 1, !.io = calls[c].io + 1], SeedOrder[1],
                                 PayloadBody(calls[c].payload, SeedOrder[1]))
     IN  calls' = [calls EXCEPT ![c] = IF call.pc = "returned" THEN Returned(call, call.res) ELSE call]
  /\ UNCHANGED <<db, fs, env, ncalls>>

\* seedEntity's source selection: the body is the source when it is a
\* non-empty array (Array.isArray(bodyRecords) && bodyRecords.length > 0).
FromBodyMutant(body) == body.arr
FromBody(body) == body.arr /\ Len(body.recs) > 0

\* seedEntity's ensureSchema resolves; up to the first query the call then
\* runs without suspension: the source is selected, validated and normalized
\* and the upserter of the kind is entered.  With no valid record every
\* upserter returns at once and so does seedEntity.
Normalize(c) ==
  /\ calls[c].pc = "schema"
  /\ LET call == calls[c]
         fromBody == FromBody(call.body)
         sourceRecords == IF fromBody THEN call.body.recs
                          ELSE loadEntityFromProjdefn(fs, call.entity)
         n == validateAndNormalize(call.entity, ArrayBody(sourceRecords), UsedIds)
         plan == UpsertPlan(call.entity, n.valid)
         nxt == [call EXCEPT !.skipped = Len(n.errors), !.errors = n.errors,
                             !.queue = plan, !.pc = "upsert", !.io = call.io + 1,
                             !.src = IF fromBody THEN "body" ELSE "fixtures",
                             !.loaded = IF fromBody THEN call.loaded ELSE call.loaded + 1]
     IN  calls' = [calls EXCEPT ![c] = IF plan = <<>> THEN Returned(nxt, Result(nxt)) ELSE nxt]
  /\ UNCHANGED <<db, fs, env, ncalls>>

\* The query of the next batch resolves or rejects.  A rejection is thrown
\* out of the upserter, seedEntity and seedAll: nothing catches it below the
\* controller.  After the last batch seedEntity returns.
ExecBatch(c) ==
  /\ calls[c].pc = "upsert"
  /\ calls[c].queue # <<>>
  /\ LET call == calls[c]
         st == Head(call.queue)
         rows == StatementRows(st.sk, st.batch, UsedIds)
         r == ExecStatement(db, st.sk, rows)
         cls == Classify(call.db0, st.sk, rows, r.flags)
         ins == CountTrue(cls)
         log == Append(call.stmts, [sk |-> st.sk, batch |-> st.batch, rows |-> rows,
                                    ok |-> r.ok, flags |-> cls])
         nxt == [call EXCEPT !.inserted = call.inserted + ins,
                             !.updated = call.updated + (Len(r.flags) - ins),
                             !.queue = Tail(call.queue), !.stmts = log,
                             !.io = call.io + 1]
     IN  /\ db' = r.db
         /\ calls' = [calls EXCEPT ![c] =
              IF ~r.ok THEN [call EXCEPT !.pc = "failed", !.stmts = log, !.io = call.io + 1]
              ELSE IF nxt.queue = <<>> THEN Returned(nxt, Result(nxt))
              ELSE nxt]
  /\ UNCHANGED <<fs, env, ncalls>>

\* The store is lost while a call awaits it (ensureSchema or a batch's
\* query): the awaited promise rejects and the call throws.
StoreError(c) ==
  /\ calls[c].pc \in {"schemaAll", "schema", "upsert"}
  /\ calls' = [calls EXCEPT ![c] =
       [calls[c] EXCEPT !.pc = "failed", !.io = calls[c].io + 1,
          !.stmts = IF calls[c].pc = "upsert"
                    THEN Append(calls[c].stmts,
                           [sk |-> Head(calls[c].queue).sk,
                            batch |-> Head(calls[c].queue).batch,
                            rows |-> StatementRows(Head(calls[c].queue).sk,
                                                   Head(calls[c].queue).batch, UsedIds),
                            ok |-> FALSE, flags |-> <<>>])
                    ELSE calls[c].stmts]]
  /\ UNCHANGED <<db, fs, env, ncalls>>


\* --------------------------------------------------------- the HTTP layer
\* String.prototype.toLowerCase on the values NODE_ENV takes here.
ToLowerCase(str) == IF str \in {"production", "Production", "PRODUCTION"} THEN "production" ELSE str

\* internalSeedGuard(req, res, next): TRUE when next() is called, FALSE when
\* the request is answered 403.  An unset variable or absent header reads ''.
internalSeedGuardMutant(e, headerToken) == headerToken # ""
internalSeedGuardLooseMutant(e, headerToken) ==
  LET isProd == ToLowerCase(e.nodeEnv) = "production"
  IN  IF ~isProd THEN TRUE ELSE headerToken = e.seedAdminToken
internalSeedGuard(e, headerToken) ==
  LET isProd == ToLowerCase(e.nodeEnv) = "production"
  IN  IF ~isProd THEN TRUE
      ELSE e.seedAdminToken # "" /\ headerToken # "" /\ headerToken = e.seedAdminToken

\* The call a request starts with.
Request(c, route, token, entity) ==
  [Fresh(c) EXCEPT !.req = [route |-> route, token |-> token, entity |-> entity]]

Forbidden(call) == [call EXCEPT !.pc = "done", !.status = 403]

\* POST /_internal/seed/:entity: the guard, then SeedController.seedOne, which
\* answers 400 for an entity outside ENTITIES and calls seedEntity with the
\* body when it is an array and with undefined otherwise.
PostSeedOne(c, token, entity, body) ==
  /\ CanStart(c)
  /\ LET base == Request(c, "seedOne", token, entity)
         call == EnterSeedEntity([base EXCEPT !.op = "seedEntity"], entity,
                                 IF body.arr THEN body ELSE NoBody)
     IN  calls' = [calls EXCEPT ![c] =
           IF ~internalSeedGuard(env, token) THEN Forbidden(base)
           ELSE IF entity \notin ENTITIES THEN [base EXCEPT !.pc = "done", !.status = 400]
           ELSE call]
  /\ ncalls' = ncalls + 1
  /\ UNCHANGED <<db, fs, env>>

\* POST /_internal/seed and /_internal/seed/all: the guard, then
\* SeedController.seedAll, which calls seedAll with the body object.
PostSeedAll(c, token, payload) ==
  /\ CanStart(c)
  /\ LET base == Request(c, "seedAll", token, "none")
     IN  calls' = [calls EXCEPT ![c] =
           IF ~internalSeedGuard(env, token) THEN Forbidden(base)
           ELSE [base EXCEPT !.op = "seedAll", !.payload = payload, !.pc = "schemaAll"]]
  /\ ncalls' = ncalls + 1
  /\ UNCHANGED <<db, fs, env>>

\* GET /_internal/seed/verify: the guard, then SeedController.verify, which
\* calls getSeedCounts; that awaits ensureSchema first.
GetVerify(c, token) ==
  /\ CanStart(c)
  /\ LET base == Request(c, "verify", token, "none")
     IN  calls' = [calls EXCEPT ![c] =
           IF ~internalSeedGuard(env, token) THEN Forbidden(base)
           ELSE [base EXCEPT !.op = "verify", !.pc = "verifySchema"]]
  /\ ncalls' = ncalls + 1
  /\ UNCHANGED <<db, fs, env>>

\* getSeedCounts: ensureSchema resolves and the three COUNT(*) queries are
\* issued together (Promise.all).
VerifySchema(c) ==
  /\ calls[c].pc = "verifySchema"
  /\ calls' = [calls EXCEPT ![c] = [calls[c] EXCEPT !.pc = "counting", !.pending = ENTITIES,
                                                     !.io = calls[c].io + 1]]
  /\ UNCHANGED <<db, fs, env, ncalls>>

\* SELECT COUNT(*)::int AS c FROM <table>
CountRowsMutant(store, table) == Cardinality(store.organizations)
CountRows(store, table) == Cardinality(store[table])

\* total: counts.organizations + counts.users + counts.resources
WithTotal(counts) ==
  [counts EXCEPT !.total = counts.organizations + counts.users + counts.resources]

\* One of the outstanding COUNT(*) queries resolves; after the last one
\* getSeedCounts returns the counts and their total.
VerifyCount(c, table) ==
  /\ calls[c].pc = "counting"
  /\ table \in calls[c].pending
  /\ LET call == [calls[c] EXCEPT !.counts[table] = CountRows(db, table),
                                  !.pending = calls[c].pending \ {table},
                                  !.io = calls[c].io + 1]
     IN  calls' = [calls EXCEPT ![c] =
           IF call.pending = {} THEN [call EXCEPT !.pc = "done", !.counts = WithTotal(call.counts)]
           ELSE call]
  /\ UNCHANGED <<db, fs, env, ncalls>>

\* The status of the response: what the guard or the controller answered at
\* once, 200 when the service returned, 500 when it threw (the controllers'
\* catch), 0 while the request is in progress.
Status(call) ==
  IF call.req.route = "none" THEN 0
  ELSE IF call.status # 0 THEN call.status
  ELSE IF call.pc = "done" THEN 200
  ELSE IF call.pc = "failed" THEN 500
  ELSE 0


\* ----------------------------------------------------------------- inputs
\* The raw records callers send.
OrgRec(id, name) == [id |-> id, name |-> name, createdAt |-> NoTime]
UserRec(id, email, org, pw, hash) ==
  [id |-> id, email |-> email, name |-> "Ann", role |-> "user", organizationId |-> org,
   createdAt |-> NoTime, password |-> pw, passwordHash |-> hash]
ResRec(id, provider) ==
  [id |-> id, provider |-> provider, type |-> "EC2", name |-> "web-01", tags |-> UNDEF,
   cost |-> NoNum, status |-> "running", createdAt |-> NoTime]

Acme == OrgRec(NoId, "Acme")
Web01 == ResRec(NoId, "AWS")
AnnNoId == UserRec(NoId, "a@x.io", NoId, UNDEF, UNDEF)
BadEmail == UserRec(NoId, "bad-email", NoId, UNDEF, UNDEF)
\* Scenario B: [{email: "bad-email", name: "X", role: "user"}]
ScenarioB == <<[BadEmail EXCEPT !.name = "X"]>>
\* Records that fail each on another field, a valid one among them.
BadUsers ==
  <<[AnnNoId EXCEPT !.name = ""], [AnnNoId EXCEPT !.role = UNDEF], AnnNoId,
    [BadEmail EXCEPT !.name = NONSTR]>>
BadResources ==
  <<[Web01 EXCEPT !.type = UNDEF], [Web01 EXCEPT !.name = NONSTR], ResRec(4, "GCP"),
    [Web01 EXCEPT !.status = NONSTR], [Web01 EXCEPT !.provider = NONSTR, !.type = ""]>>
\* An id-less user, an invalid one and one with an id, in this order.
MixedUsers == <<AnnNoId, BadEmail, UserRec(2, "b@x.io", NoId, UNDEF, UNDEF)>>

OrgBodies ==
  { <<Acme>>, <<OrgRec(1, "Acme")>>, <<OrgRec(1, "Beta")>>, <<OrgRec(2, "Beta")>>,
    <<OrgRec(1, "Acme"), OrgRec(2, "Beta")>>, <<Acme, OrgRec(BadId, "")>>,
    <<OrgRec(1, "Acme"), OrgRec(1, "Acme")>> }
UserBodies ==
  { <<UserRec(1, "a@x.io", NoId, "pw1", UNDEF)>>, <<UserRec(1, "a@x.io", NoId, UNDEF, UNDEF)>>,
    <<UserRec(NoId, "a@x.io", NoId, UNDEF, "$2a$10$given")>>, <<AnnNoId>>,
    <<UserRec(2, "a@x.io", NoId, UNDEF, UNDEF)>>, <<AnnNoId, AnnNoId>>,
    <<UserRec(1, "b@x.io", NoId, UNDEF, UNDEF), UserRec(NoId, "b@x.io", 1, UNDEF, UNDEF)>>,
    <<UserRec(2, "b@x.io", NoId, "pw1", UNDEF), UserRec(NoId, "a@x.io", NoId, UNDEF, "$2a$10$given")>>,
    <<UserRec(2, "b@x.io", NoId, UNDEF, UNDEF), AnnNoId>>,
    <<BadEmail, AnnNoId>>, MixedUsers, ScenarioB, BadUsers,
    <<UserRec(1, "a@x.io", NoId, "pw1", "$2a$10$given"), UserRec(NoId, "b@x.io", NoId, "pw2", "")>> }
\* More invalid records than the result reports, a valid one among them and
\* one after them.
ManyBad ==
  [i \in 1..(MaxErrors + 3) |->
     IF i = 2 \/ i = MaxErrors + 3 THEN ResRec(i, "Azure")
     ELSE IF i % 2 = 0 THEN ResRec(i, "aws") ELSE ResRec(i, "DigitalOcean")]
ResBodies ==
  { <<Web01>>, <<ResRec(1, "AWS")>>, <<ResRec(1, "GCP")>>, <<Web01, ResRec(1, "AWS")>>,
    <<ResRec(NoId, "DigitalOcean"), Web01>>, ManyBad, BadResources }

\* An entity kind that is none of ENTITIES.
Unsupported == "widgets"

\* The bodies of a seedEntity call: absent, an empty array, or one of the
\* arrays above.
Bodies(entity) ==
  IF entity \notin ENTITIES THEN {NoBody, ArrayBody(<<Web01>>)}
  ELSE {NoBody, ArrayBody(<<>>)} \cup
       {ArrayBody(recs) : recs \in IF entity = "organizations" THEN OrgBodies
                                   ELSE IF entity = "users" THEN UserBodies
                                   ELSE ResBodies}

\* The file systems: no .projdefn anywhere, or one found by the ascent that
\* holds an organizations file, a users file that does not parse and a file
\* of another shape.
JsonFile(mentions, shape, items) == [mentions |-> mentions, shape |-> shape, items |-> items]
NoProjdefn == [explicit |-> NoDir, ascend |-> NoDir, cwd |-> NoDir]
SomeProjdefn ==
  [explicit |-> NoDir,
   ascend |-> [isDir |-> TRUE,
               files |-> <<JsonFile({"organizations"}, "items", <<OrgRec(2, "Beta")>>),
                           JsonFile({"users"}, "invalid", <<>>),
                           JsonFile({"resources"}, "other", <<>>)>>],
   cwd |-> NoDir]

\* A record with the fields of every kind, valid as an organization and as
\* a resource.
AnyRec ==
  [id |-> NoId, name |-> "Default", createdAt |-> NoTime, email |-> UNDEF, role |-> UNDEF,
   organizationId |-> NoId, password |-> UNDEF, passwordHash |-> UNDEF, provider |-> "GCP",
   type |-> "VM", tags |-> UNDEF, cost |-> NoNum, status |-> "running"]

\* A directory named by PROJDEFN_DIR (another one is on the ascent) with
\* several files per kind: arrays, an object with items whose path names two
\* kinds, a file that does not parse and one of another shape among them, and
\* the same record in two files.
ManyProjdefn ==
  [explicit |-> [isDir |-> TRUE,
                 files |-> <<JsonFile({"resources"}, "array", <<Web01>>),
                             JsonFile({"resources"}, "invalid", <<>>),
                             JsonFile({"resources", "organizations"}, "items", <<AnyRec>>),
                             JsonFile({"resources"}, "other", <<>>),
                             JsonFile({"users"}, "array", <<AnnNoId>>),
                             JsonFile({"resources"}, "array",
                                      <<Web01, ResRec(NoId, "DigitalOcean")>>),
                             JsonFile({"organizations"}, "array", <<OrgRec(1, "Acme")>>)>>],
   ascend |-> [isDir |-> TRUE,
               files |-> <<JsonFile({"organizations"}, "items", <<OrgRec(2, "Beta")>>)>>],
   cwd |-> NoDir]

\* process.env as the guard reads it.
DevEnv == [nodeEnv |-> "development", seedAdminToken |-> ""]

\* --------------------------------------------------------- specifications
\* Spec: one caller issues up to MaxCalls seedEntity calls, one after the
\* other, against a store that answers every statement.
Init ==
  /\ db = EmptyDb
  /\ calls = [c \in {1} |-> IdleCall]
  /\ fs = SomeProjdefn
  /\ env = DevEnv
  /\ ncalls = 0

SeedEntityCall ==
  \E c \in DOMAIN calls, entity \in ENTITIES \cup {Unsupported} :
    \E body \in Bodies(entity) :
      ncalls < MaxCalls /\ StartSeedEntity(c, entity, body)

NormalizeStep == \E c \in DOMAIN calls : Normalize(c)
ExecBatchStep == \E c \in DOMAIN calls : ExecBatch(c)

Next == SeedEntityCall \/ NormalizeStep \/ ExecBatchStep

Spec == Init /\ [][Next]_vars


\* SpecAll: one caller issues up to MaxCalls seedAll calls; the store may be
\* lost at any await.
AllPayloads ==
  [organizations : {NoBody, ArrayBody(<<OrgRec(1, "Acme")>>), ArrayBody(<<OrgRec(BadId, "")>>)},
   users : {ArrayBody(<<UserRec(NoId, "a@x.io", 1, "pw1", UNDEF)>>), ArrayBody(<<BadEmail>>)},
   resources : {NoBody, ArrayBody(<<Web01>>)}]

SeedAllCall ==
  \E c \in DOMAIN calls, payload \in AllPayloads :
    ncalls < MaxCalls /\ StartSeedAll(c, payload)

EnsureSchemaAllStep == \E c \in DOMAIN calls : EnsureSchemaAll(c)
StoreErrorStep == \E c \in DOMAIN calls : StoreError(c)

NextAll == SeedAllCall \/ EnsureSchemaAllStep \/ NormalizeStep \/ ExecBatchStep \/ StoreErrorStep

SpecAll == Init /\ [][NextAll]_vars

\* SpecConc: two callers; their calls interleave at the awaits, one store
\* statement at a time.
InitConc ==
  /\ db = EmptyDb
  /\ calls = [c \in {1, 2} |-> IdleCall]
  /\ fs = NoProjdefn
  /\ env = DevEnv
  /\ ncalls = 0

ConcBodies(entity) ==
  {ArrayBody(recs) :
     recs \in IF entity = "organizations" THEN {<<OrgRec(1, "Acme")>>, <<Acme>>}
              ELSE IF entity = "users"
              THEN {<<UserRec(1, "a@x.io", NoId, UNDEF, UNDEF)>>, <<AnnNoId>>,
                    <<UserRec(NoId, "a@x.io", NoId, UNDEF, "$2a$10$given")>>}
              ELSE {<<ResRec(1, "AWS")>>, <<ResRec(1, "GCP")>>}}

ConcSeedEntityCall ==
  \E c \in DOMAIN calls, entity \in ENTITIES :
    \E body \in ConcBodies(entity) :
      ncalls < MaxCalls /\ StartSeedEntity(c, entity, body)

NextConc == ConcSeedEntityCall \/ NormalizeStep \/ ExecBatchStep

SpecConc == InitConc /\ [][NextConc]_vars

\* SpecChunk: one caller seeds bodies of one or more chunks (records with
\* the ids 1..n), and users bodies that take both passes; the store may be
\* lost at any await.  The store is empty at first, or holds what earlier
\* seeding left: an organization whose name is that of the first record of a
\* second chunk, and the resources of a chunk and a half under another
\* provider.
BigSizes == {1, BatchSize, BatchSize + 1, MaxBigChunks * BatchSize + 1}
BigBodies(entity) ==
  IF entity = "organizations"
  THEN {ArrayBody([i \in 1..n |-> OrgRec(i, ToString(i))]) : n \in BigSizes}
  ELSE IF entity = "resources"
  THEN {ArrayBody([i \in 1..n |-> ResRec(i, "AWS")]) : n \in BigSizes}
  ELSE {ArrayBody(<<UserRec(2, "b@x.io", NoId, "pw1", UNDEF), AnnNoId>>)}

\* The store after one statement of the given kind for the given records.
Seeded(store, entity, recs) ==
  LET valid == validateAndNormalize(entity, ArrayBody(recs), {}).valid
  IN  ExecStatement(store, entity, StatementRows(entity, valid, {})).db

SeededDb ==
  Seeded(Seeded(EmptyDb, "organizations", <<OrgRec(GenBase - 1, ToString(BatchSize + 1))>>),
         "resources", [i \in 1..(BatchSize + 50) |-> ResRec(i, "GCP")])

InitChunk ==
  /\ db \in {EmptyDb, SeededDb}
  /\ calls = [c \in {1} |-> IdleCall]
  /\ fs = NoProjdefn
  /\ env = DevEnv
  /\ ncalls = 0

ChunkSeedEntityCall ==
  \E c \in DOMAIN calls, entity \in ENTITIES :
    \E body \in BigBodies(entity) :
      ncalls < MaxChunkCalls /\ StartSeedEntity(c, entity, body)

NextChunk == ChunkSeedEntityCall \/ NormalizeStep \/ ExecBatchStep \/ StoreErrorStep

SpecChunk == InitChunk /\ [][NextChunk]_vars

\* SpecApi: one caller issues up to MaxRequests requests to the seeding
\* endpoints, with or without a token, or calls seedEntity itself with a kind
\* the controller would not let through.  The process runs outside or in
\* production, with or without SEED_ADMIN_TOKEN; the fixture directory is
\* missing, empty or filled; the store is empty or holds rows seeded before.
ProdEnv == [nodeEnv |-> "production", seedAdminToken |-> "s3cret"]
Tokens == {"", "s3cret", "wrong"}
EmptyProjdefn == [explicit |-> NoDir, ascend |-> NoDir, cwd |-> [isDir |-> TRUE, files |-> <<>>]]
Deployments ==
  { [env |-> DevEnv, fs |-> NoProjdefn], [env |-> DevEnv, fs |-> EmptyProjdefn],
    [env |-> DevEnv, fs |-> SomeProjdefn], [env |-> ProdEnv, fs |-> SomeProjdefn],
    [env |-> DevEnv, fs |-> ManyProjdefn],
    [env |-> [ProdEnv EXCEPT !.nodeEnv = "Production"], fs |-> NoProjdefn],
    [env |-> [ProdEnv EXCEPT !.seedAdminToken = ""], fs |-> EmptyProjdefn],
    [env |-> [nodeEnv |-> "PRODUCTION", seedAdminToken |-> ""], fs |-> NoProjdefn],
    [env |-> [ProdEnv EXCEPT !.nodeEnv = ""], fs |-> NoProjdefn] }

SmallSeededDb ==
  Seeded(Seeded(EmptyDb, "organizations", <<OrgRec(3, "Gamma")>>),
         "resources", <<ResRec(5, "GCP"), ResRec(6, "Azure"), ResRec(7, "AWS")>>)

InitApi ==
  /\ db \in {EmptyDb, SmallSeededDb}
  /\ calls = [c \in {1} |-> IdleCall]
  /\ \E d \in Deployments : fs = d.fs /\ env = d.env
  /\ ncalls = 0

ApiBodies(entity) ==
  IF entity = "organizations" THEN {NoBody, ArrayBody(<<OrgRec(1, "Acme")>>)}
  ELSE IF entity = "users" THEN {NoBody, ArrayBody(<<AnnNoId, BadEmail>>)}
  ELSE {NoBody, ArrayBody(<<Web01>>)}
ApiPayloads ==
  {NoPayload,
   [organizations |-> ArrayBody(<<OrgRec(1, "Acme")>>),
    users |-> ArrayBody(<<UserRec(NoId, "a@x.io", 1, "pw1", UNDEF), BadEmail>>),
    resources |-> ArrayBody(<<>>)]}

PostSeedOneRequest ==
  \E c \in DOMAIN calls, token \in Tokens, entity \in ENTITIES \cup {Unsupported} :
    \E body \in ApiBodies(entity) :
      ncalls < MaxRequests /\ PostSeedOne(c, token, entity, body)
PostSeedAllRequest ==
  \E c \in DOMAIN calls, token \in Tokens, payload \in ApiPayloads :
    ncalls < MaxRequests /\ PostSeedAll(c, token, payload)
GetVerifyRequest ==
  \E c \in DOMAIN calls, token \in Tokens : ncalls < MaxRequests /\ GetVerify(c, token)
UnsupportedSeedEntityCall ==
  \E c \in DOMAIN calls, body \in ApiBodies(Unsupported) :
    ncalls < MaxRequests /\ StartSeedEntity(c, Unsupported, body)
VerifySchemaStep == \E c \in DOMAIN calls : VerifySchema(c)
VerifyCountStep == \E c \in DOMAIN calls, table \in ENTITIES : VerifyCount(c, table)

NextApi ==
  \/ PostSeedOneRequest \/ PostSeedAllRequest \/ GetVerifyRequest \/ UnsupportedSeedEntityCall
  \/ EnsureSchemaAllStep \/ NormalizeStep \/ ExecBatchStep \/ VerifySchemaStep \/ VerifyCountStep

SpecApi == InitApi /\ [][NextApi]_vars

\* SpecMerge: one caller issues up to MaxMergeCalls seedEntity calls whose
\* records differ, for one key, in every column: a later call meets the rows
\* of an earlier one.  The store holds an organization (for users to refer
\* to) and resources, or nothing.
Changed(r) == [r EXCEPT !.name = "Bob", !.createdAt = 5]
ChangedUser(r) == [Changed(r) EXCEPT !.role = "admin"]
ChangedResource(r) ==
  [Changed(r) EXCEPT !.type = "S3", !.tags = "{env:prod}", !.cost = 7, !.status = "stopped"]

MergeBodies(entity) ==
  {ArrayBody(recs) :
     recs \in IF entity = "organizations"
              THEN {<<OrgRec(1, "Acme")>>, <<Changed(OrgRec(1, "Acme"))>>,
                    <<OrgRec(1, "Acme"), OrgRec(2, "Beta")>>, <<Changed(OrgRec(3, "Gamma"))>>}
              ELSE IF entity = "users"
              THEN {<<UserRec(1, "a@x.io", NoId, "pw1", UNDEF)>>,
                    <<UserRec(1, "a@x.io", NoId, "pw1", UNDEF), UserRec(2, "b@x.io", NoId, UNDEF, UNDEF)>>,
                    <<ChangedUser(UserRec(1, "a@x.io", 3, UNDEF, UNDEF))>>,
                    <<ChangedUser(UserRec(1, "b@x.io", 3, UNDEF, "$2a$10$given"))>>,
                    <<AnnNoId>>,
                    <<AnnNoId, UserRec(NoId, "b@x.io", NoId, "pw1", UNDEF)>>,
                    <<ChangedUser(UserRec(BadId, "a@x.io", 3, "pw2", UNDEF))>>,
                    <<ChangedUser(UserRec(NoId, "a@x.io", NoId, UNDEF, UNDEF))>>}
              ELSE {<<ResRec(1, "AWS")>>, <<ChangedResource(ResRec(1, "GCP"))>>,
                    <<ResRec(1, "AWS"), ResRec(2, "Azure")>>, <<ChangedResource(ResRec(5, "Azure"))>>,
                    <<Web01>>}}

InitMerge ==
  /\ db \in {EmptyDb, SmallSeededDb}
  /\ calls = [c \in {1} |-> IdleCall]
  /\ fs = NoProjdefn
  /\ env = DevEnv
  /\ ncalls = 0

MergeSeedEntityCall ==
  \E c \in DOMAIN calls, entity \in ENTITIES :
    \E body \in MergeBodies(entity) :
      ncalls < MaxMergeCalls /\ StartSeedEntity(c, entity, body)

NextMerge == MergeSeedEntityCall \/ NormalizeStep \/ ExecBatchStep

SpecMerge == InitMerge /\ [][NextMerge]_vars

\* SpecMix: two callers, each with one operation: a seedEntity call, a
\* seedAll call or a verify request.  The operations interleave at their
\* awaits and the store may be lost at any await of a seeding call.
MixBodies(entity) ==
  {ArrayBody(recs) :
     recs \in IF entity = "organizations"
              THEN {<<OrgRec(1, "Acme")>>, <<OrgRec(2, "Beta"), OrgRec(1, "Acme"), OrgRec(1, "Acme")>>}
              ELSE IF entity = "users" THEN {MixedUsers}
              ELSE {<<Web01>>}}
MixPayloads ==
  {[organizations |-> ArrayBody(<<OrgRec(1, "Acme")>>),
    users |-> ArrayBody(<<UserRec(NoId, "a@x.io", 1, "pw1", UNDEF), BadEmail>>),
    resources |-> NoBody],
   [organizations |-> NoBody,
    users |-> ArrayBody(<<UserRec(NoId, "a@x.io", 1, "pw1", UNDEF)>>),
    resources |-> ArrayBody(<<Web01>>)]}

MixSeedEntityCall ==
  \E c \in DOMAIN calls, entity \in ENTITIES :
    \E body \in MixBodies(entity) :
      calls[c].pc = "idle" /\ StartSeedEntity(c, entity, body)
MixSeedAllCall ==
  \E c \in DOMAIN calls, payload \in MixPayloads :
    calls[c].pc = "idle" /\ StartSeedAll(c, payload)
MixVerifyRequest ==
  \E c \in DOMAIN calls : calls[c].pc = "idle" /\ GetVerify(c, "")

NextMix ==
  \/ MixSeedEntityCall \/ MixSeedAllCall \/ MixVerifyRequest
  \/ EnsureSchemaAllStep \/ NormalizeStep \/ ExecBatchStep \/ StoreErrorStep
  \/ VerifySchemaStep \/ VerifyCountStep

SpecMix == InitConc /\ [][NextMix]_vars

\* ------------------------------------------------------------- properties
Ended(call) == call.pc \in {"done", "failed"}
Last(seq) == seq[Len(seq)]

\* The call of caller c and the one before it are seedEntity calls of the
\* same kind with the same array body, and both are over.
SameTwice(call, entity, body) ==
  /\ call.op = "seedEntity" /\ call.entity = entity /\ call.body = body
  /\ call.prev.op = "seedEntity" /\ call.prev.entity = entity /\ call.prev.body = body
  /\ Ended(call)

\* C1 (as claimed): for every entity kind and every body of valid records,
\* the second of two seedEntity calls in a row with that body returns
\* inserted = 0 and updated = the number of records.
C1_SecondRunOnlyUpdates ==
  \A c \in DOMAIN calls : \A entity \in ENTITIES : \A body \in Bodies(entity) :
    ( /\ body.arr /\ Len(body.recs) > 0
      /\ SameTwice(calls[c], entity, body)
      /\ calls[c].prev.pc = "done" /\ calls[c].prev.res.skipped = 0 )
    => /\ calls[c].pc = "done"
       /\ calls[c].res.inserted = 0
       /\ calls[c].res.updated = Len(body.recs)

\* C2: a stored password hash is never cleared, and a statement none of whose
\* records for a user row carries password or passwordHash leaves that row's
\* hash as it was (either pass).
CarriesNoCredential(r) == r.password = UNDEF /\ r.passwordHash = UNDEF
IssuedNow(c) == Len(calls'[c].stmts) > Len(calls[c].stmts)
C2_HashNeverCleared ==
  [][\A u \in db.users : u.passwordHash # UNDEF =>
       \E v \in db'.users :
         /\ v.id = u.id
         /\ v.passwordHash # UNDEF
         /\ \A c \in DOMAIN calls :
              (IssuedNow(c) /\ LET st == Last(calls'[c].stmts)
                               IN  TableOf(st.sk) = "users" =>
                                     \A i \in 1..Len(st.batch) :
                                       Arbiter(st.sk, st.rows[i]) = Arbiter(st.sk, u)
                                         => CarriesNoCredential(st.batch[i]))
              => v.passwordHash = u.passwordHash]_vars

\* C2 witness: a users call whose id-keyed and email-keyed statements both
\* updated a row from a record without credentials, the rows keeping a hash.
C2_Witness ==
  \E c \in DOMAIN calls :
    /\ calls[c].pc = "done" /\ calls[c].entity = "users" /\ Len(calls[c].stmts) = 2
    /\ \A k \in 1..2 :
         LET st == calls[c].stmts[k]
         IN  /\ st.ok /\ st.flags = <<FALSE>> /\ CarriesNoCredential(st.batch[1])
             /\ \E u \in db.users : u.email = st.rows[1].email /\ u.passwordHash # UNDEF
    /\ calls[c].stmts[1].sk = "usersById" /\ calls[c].stmts[2].sk = "usersByEmail"

\* C3 (as claimed), scenario A: [{name: "Acme"}] into a store without
\* organizations returns {1,0,0,[]}, and the same input again {0,1,0,[]}.
ScenarioA == ArrayBody(<<Acme>>)
C3_ScenarioA ==
  \A c \in DOMAIN calls :
    LET call == calls[c]
    IN  /\ ( /\ call.op = "seedEntity" /\ call.entity = "organizations" /\ call.body = ScenarioA
             /\ call.db0.organizations = {} /\ Ended(call) )
           => (call.pc = "done" /\ call.res = [inserted |-> 1, updated |-> 0, skipped |-> 0, errors |-> <<>>])
        /\ (SameTwice(call, "organizations", ScenarioA) /\ call.prev.db0.organizations = {})
           => (call.pc = "done" /\ call.res = [inserted |-> 0, updated |-> 1, skipped |-> 0, errors |-> <<>>])

\* C4 (as claimed), scenario C: the second of two resources calls with the
\* one id-less record returns updated = 1, inserted = 0.
ScenarioC == ArrayBody(<<Web01>>)
C4_ScenarioC ==
  \A c \in DOMAIN calls :
    SameTwice(calls[c], "resources", ScenarioC)
    => (calls[c].pc = "done" /\ calls[c].res.updated = 1 /\ calls[c].res.inserted = 0)

\* C5 (as claimed): a users call with two id-less records of one email that
\* is not in the store succeeds with one insert and one update and leaves one
\* row for the email.
C5_SameEmailCollapses ==
  \A c \in DOMAIN calls :
    LET call == calls[c]
    IN  ( /\ call.op = "seedEntity" /\ call.entity = "users"
          /\ call.body = ArrayBody(<<AnnNoId, AnnNoId>>)
          /\ \A u \in call.db0.users : u.email # "a@x.io"
          /\ Ended(call) )
        => /\ call.pc = "done"
           /\ call.res.inserted = 1 /\ call.res.updated = 1
           /\ Cardinality({u \in db.users : u.email = "a@x.io"}) = 1

\* C8 (as claimed): no table holds two rows with one key, and no statement
\* whose references all exist fails on a record that collides with an existing
\* row on a uniqueness key (the id of its table, organizations.name,
\* users.email): it merges.
Collides(sk, row, store) ==
  \E t \in store[TableOf(sk)] :
    \/ t.id = row.id
    \/ sk = "organizations" /\ t.name = row.name
    \/ TableOf(sk) = "users" /\ t.email = row.email
UniqueKeys(store) ==
  /\ \A tn \in DOMAIN store : \A x, y \in store[tn] : x.id = y.id => x = y
  /\ \A x, y \in store.organizations : x.name = y.name => x = y
  /\ \A x, y \in store.users : x.email = y.email => x = y
ReferencesExist(st, store) ==
  TableOf(st.sk) = "users" =>
    \A i \in 1..Len(st.rows) :
      st.rows[i].organizationId \in {NoId} \cup {o.id : o \in store.organizations}
C8_CollisionsMerge ==
  /\ UniqueKeys(db)
  /\ \A c \in DOMAIN calls :
       calls[c].pc = "failed" /\ calls[c].stmts # <<>> =>
         LET st == Last(calls[c].stmts)
         IN  ReferencesExist(st, db) =>
               \A i \in 1..Len(st.rows) : ~Collides(st.sk, st.rows[i], db)


\* The place of a table in the order organizations, users, resources.
KindRank(tn) == IF tn = "organizations" THEN 1 ELSE IF tn = "users" THEN 2 ELSE 3

\* C6 (as claimed): in a seedAll call every kind after one whose seeding
\* failed or skipped everything is still seeded: a call that began seeding
\* some kind and is over has gone on to the last kind.
C6_LaterKindsStillSeeded ==
  \A c \in DOMAIN calls :
    (calls[c].op = "seedAll" /\ Ended(calls[c]) /\ calls[c].idx >= 1) => calls[c].idx = 3

\* C6 (amended): a seedAll call that returns has seeded all three kinds, also
\* after a kind that skipped all its records; a store failure while seeding
\* the kind at position idx fails the whole call there: the results of the
\* kinds before it are all it has, and no statement of a later kind is issued.
C6_SkipGoesOnFailureStops ==
  \A c \in DOMAIN calls :
    LET call == calls[c]
    IN  call.op = "seedAll" =>
          /\ call.pc = "done" => (Len(call.results) = 3 /\ call.idx = 3)
          /\ (call.pc = "failed" /\ call.idx >= 1) =>
               /\ Len(call.results) = call.idx - 1
               /\ \A i \in 1..Len(call.stmts) : KindRank(TableOf(call.stmts[i].sk)) <= call.idx
               /\ call.queue # <<>> =>
                    KindRank(TableOf(Head(call.queue).sk)) = call.idx

\* C6 witness: a seedAll call returned whose organizations were all skipped
\* and whose resources were inserted after that, the call before it having
\* failed.
C6_Witness ==
  \E c \in DOMAIN calls :
    /\ calls[c].op = "seedAll" /\ calls[c].pc = "done"
    /\ calls[c].results[1].skipped = 1
    /\ calls[c].results[1].inserted + calls[c].results[1].updated = 0
    /\ calls[c].results[3].inserted = 1
    /\ calls[c].prev.op = "seedAll" /\ calls[c].prev.pc = "failed"

\* C10: the statements of a seedAll call come in the order organizations,
\* users, resources: each has completed before the next is issued, so the
\* log of completed statements never steps back to an earlier kind.
C10_FixedOrder ==
  \A c \in DOMAIN calls :
    calls[c].op = "seedAll" =>
      \A i, j \in 1..Len(calls[c].stmts) :
        i < j => KindRank(TableOf(calls[c].stmts[i].sk)) <= KindRank(TableOf(calls[c].stmts[j].sk))

\* C10 witness: a seedAll call returned after writing all three tables.
C10_Witness ==
  \E c \in DOMAIN calls :
    /\ calls[c].op = "seedAll" /\ calls[c].pc = "done"
    /\ {TableOf(calls[c].stmts[i].sk) : i \in 1..Len(calls[c].stmts)} = ENTITIES
    /\ \A i \in 1..Len(calls[c].stmts) : calls[c].stmts[i].ok


\* The conflict keys a call's successful statements upserted, and those among
\* them it counted as inserted / as updated.
Key(sk, row) ==
  [table |-> TableOf(sk), by |-> IF sk = "usersByEmail" THEN "email" ELSE "id",
   id |-> IF sk = "usersByEmail" THEN NoId ELSE row.id,
   email |-> IF sk = "usersByEmail" THEN row.email ELSE ""]
KeysAs(call, flag) ==
  UNION {{Key(call.stmts[k].sk, call.stmts[k].rows[i]) :
            i \in {j \in 1..Len(call.stmts[k].flags) : call.stmts[k].flags[j] = flag}} :
         k \in {n \in 1..Len(call.stmts) : call.stmts[n].ok}}
RowsWith(store, key) ==
  {t \in store[key.table] : IF key.by = "email" THEN t.email = key.email ELSE t.id = key.id}

\* C7: when the calls of two callers have both upserted a key that was in the
\* store when neither began, one of them counted the row as inserted and the
\* other as updated, each reports the counts of its rows, and the store holds
\* one row for the key.
C7_OneInsertOneUpdate ==
  \A c1, c2 \in DOMAIN calls :
    c1 # c2 =>
      \A key \in (KeysAs(calls[c1], TRUE) \cup KeysAs(calls[c1], FALSE))
                 \cap (KeysAs(calls[c2], TRUE) \cup KeysAs(calls[c2], FALSE)) :
        (RowsWith(calls[c1].db0, key) = {} /\ RowsWith(calls[c2].db0, key) = {}) =>
          /\ (key \in KeysAs(calls[c1], TRUE)) # (key \in KeysAs(calls[c2], TRUE))
          /\ (key \in KeysAs(calls[c1], FALSE)) # (key \in KeysAs(calls[c2], FALSE))
          /\ \A c \in {c1, c2} :
               calls[c].pc = "done" =>
                 /\ calls[c].res.inserted = Cardinality(KeysAs(calls[c], TRUE))
                 /\ calls[c].res.updated = Cardinality(KeysAs(calls[c], FALSE))
          /\ Cardinality(RowsWith(db, key)) = 1

\* C7 witness: two id-less users calls for one email, both begun on a store
\* without it, both returned.
C7_Witness ==
  /\ \A c \in {1, 2} :
       /\ calls[c].pc = "done" /\ calls[c].entity = "users"
       /\ calls[c].db0.users = {}
       /\ Len(calls[c].stmts) = 1 /\ calls[c].stmts[1].sk = "usersByEmail"
       /\ calls[c].stmts[1].rows[1].email = "a@x.io"
  /\ calls[1].res.updated = 1 /\ calls[2].res.inserted = 1


\* The keys of the statements 1..n of a call.
KeysOfFirst(call, n) ==
  UNION {{Key(call.stmts[k].sk, call.stmts[k].rows[i]) : i \in 1..Len(call.stmts[k].rows)} :
         k \in 1..n}

\* C9: a seedEntity call issues its statements one after the other, each for
\* a chunk of at most BatchSize records and every chunk of a pass but its last
\* a full one; when the store fails on a statement the call fails, the rows of
\* the statements before it are in the store, and every key of the failed and
\* of the remaining chunks that no earlier statement wrote has the row it had
\* when the call began (none, or the unchanged one).
C9_ChunksCommitSeparately ==
  \A c \in DOMAIN calls :
    LET call == calls[c]
        n == Len(call.stmts)
        written == KeysOfFirst(call, n - 1)
    IN  call.op = "seedEntity" =>
          /\ \A k \in 1..n : Len(call.stmts[k].rows) \in 1..BatchSize
          /\ \A k \in 1..(n - 1) :
               /\ call.stmts[k].ok
               /\ call.stmts[k].sk = call.stmts[k + 1].sk => Len(call.stmts[k].rows) = BatchSize
          /\ call.pc = "done" =>
               /\ \A k \in 1..n : call.stmts[k].ok
               /\ call.res.inserted + call.res.updated + call.res.skipped = Len(call.body.recs)
          /\ (call.pc = "failed" /\ n >= 1) =>
               /\ ~call.stmts[n].ok
               /\ \A key \in written : RowsWith(db, key) # {}
               /\ \A q \in 1..Len(call.queue) : \A i \in 1..Len(call.queue[q].batch) :
                    LET key == Key(call.queue[q].sk, call.queue[q].batch[i])
                    IN  key \notin written =>
                          RowsWith(db, key) = RowsWith(call.db0, key)

\* C9 witness: a resources call of two full chunks and one more record began
\* on an empty table and failed on its third statement; the two hundred rows
\* of the first two chunks are in the store, the last row is not.
C9_Witness ==
  \E c \in DOMAIN calls :
    /\ calls[c].pc = "failed" /\ calls[c].entity = "resources"
    /\ calls[c].db0.resources = {}
    /\ Len(calls[c].stmts) = 3 /\ Len(calls[c].body.recs) = 2 * BatchSize + 1
    /\ Cardinality(db.resources) = 2 * BatchSize


\* C11 as stated: a seedEntity call with a kind outside ENTITIES does not
\* return: it ends in an operation failure, and it awaits the store never.
C11_UnsupportedIsOperationError ==
  \A c \in DOMAIN calls :
    (calls[c].op = "seedEntity" /\ calls[c].entity \notin ENTITIES) =>
      (calls[c].pc = "failed" /\ calls[c].io = 0)

\* C11: a kind outside ENTITIES never reaches the store.  A request for it
\* that passes the guard is answered 400 by the controller, which does not
\* call seedEntity; seedEntity called with it returns at once, normally, a
\* result of zero counts whose errors hold the one entry of index -1.
C11_UnsupportedKind ==
  \A c \in DOMAIN calls :
    LET call == calls[c]
    IN  /\ (call.req.route = "seedOne" /\ call.req.entity \notin ENTITIES /\ call.status # 403) =>
             /\ Status(call) = 400 /\ call.op = "none" /\ call.pc = "done"
             /\ call.io = 0 /\ call.stmts = <<>> /\ call.loaded = 0 /\ db = call.db0
        /\ (call.op = "seedEntity" /\ call.entity \notin ENTITIES) =>
             /\ call.pc = "done"
             /\ call.res = [inserted |-> 0, updated |-> 0, skipped |-> 0,
                            errors |-> <<[index |-> -1, error |-> "Unsupported entity"]>>]
             /\ call.io = 0 /\ call.stmts = <<>> /\ call.loaded = 0 /\ db = call.db0

\* C11 witness: seedEntity was called with an unsupported kind and a body of
\* one record, on a store that holds rows, and has returned.
C11_Witness ==
  \E c \in DOMAIN calls :
    /\ calls[c].op = "seedEntity" /\ calls[c].entity = Unsupported
    /\ calls[c].body = ArrayBody(<<Web01>>) /\ calls[c].pc = "done"
    /\ Len(calls[c].res.errors) = 1 /\ db = SmallSeededDb


\* The records a seedEntity call past its source selection works on, and the
\* 1-based positions of those that normalization rejects.
SourceOf(call) ==
  IF call.src = "body" THEN call.body.recs ELSE loadEntityFromProjdefn(fs, call.entity)
Rejected(entity, recs) == {i \in 1..Len(recs) : ~NormRecord(entity, recs[i], {}).ok}

\* The errors list holds the first min(MaxErrors, n) of the n rejected
\* positions, in input order and 0-based.
FirstErrorsOf(errors, bad) ==
  /\ Len(errors) = Min(MaxErrors, Cardinality(bad))
  /\ \A k \in 1..Len(errors) :
       /\ errors[k].index + 1 \in bad
       /\ Cardinality({i \in bad : i < errors[k].index + 1}) = k - 1

\* C12 as stated: every seedEntity call that returns reports as skipped the
\* number of records normalization rejected (none when nothing was
\* normalized) and as errors the first min(10, that number) of them.
C12_SkippedAndErrors ==
  \A c \in DOMAIN calls :
    LET call == calls[c]
        bad == IF call.src = "none" THEN {} ELSE Rejected(call.entity, SourceOf(call))
    IN  (call.op = "seedEntity" /\ call.pc = "done") =>
          /\ call.res.skipped = Cardinality(bad)
          /\ FirstErrorsOf(call.res.errors, bad)

\* C12: a seedEntity call of a supported kind that returns reports as skipped
\* the number of records normalization rejected and as errors the first
\* min(10, that number) of them in input order, and every record, also after
\* the tenth rejected one, is counted as inserted, updated or skipped; a call
\* of an unsupported kind reports skipped = 0 and one error of index -1.
C12_SkippedAndErrorsOfSupported ==
  \A c \in DOMAIN calls :
    LET call == calls[c]
    IN  (call.op = "seedEntity" /\ call.pc = "done") =>
          IF call.entity \in ENTITIES
          THEN /\ call.res.skipped = Cardinality(Rejected(call.entity, SourceOf(call)))
               /\ FirstErrorsOf(call.res.errors, Rejected(call.entity, SourceOf(call)))
               /\ call.res.inserted + call.res.updated + call.res.skipped = Len(SourceOf(call))
          ELSE /\ call.res.skipped = 0 /\ Len(call.res.errors) = 1
               /\ call.res.errors[1].index = -1

\* C12 witness: a call whose body has eleven rejected records, a valid one
\* among them and a valid one after them, has returned.
C12_Witness ==
  \E c \in DOMAIN calls :
    /\ calls[c].op = "seedEntity" /\ calls[c].pc = "done" /\ calls[c].body = ArrayBody(ManyBad)
    /\ calls[c].res.skipped = MaxErrors + 1 /\ Len(calls[c].res.errors) = MaxErrors
    /\ calls[c].res.inserted + calls[c].res.updated = 2


\* C13: a seedEntity call of a supported kind takes its records from the
\* body, and does not call the fixture loader, exactly when the body is a
\* non-empty array; with an absent, non-array or empty body it calls the
\* loader once and works on what the loader returns.  The result counts the
\* records of that source.
C13_SourceSelection ==
  \A c \in DOMAIN calls :
    LET call == calls[c]
        nonEmpty == call.body.arr /\ Len(call.body.recs) > 0
        records == IF nonEmpty THEN call.body.recs
                   ELSE loadEntityFromProjdefn(fs, call.entity)
    IN  (call.op = "seedEntity" /\ call.entity \in ENTITIES /\ call.pc \in {"upsert", "done", "failed"}) =>
          /\ nonEmpty => (call.src = "body" /\ call.loaded = 0)
          /\ ~nonEmpty => (call.src = "fixtures" /\ call.loaded = 1)
          /\ call.skipped = Cardinality(Rejected(call.entity, records))
          /\ call.pc = "done" =>
               call.res.inserted + call.res.updated + call.res.skipped = Len(records)

\* C13 witness: an organizations call with an empty array as body has
\* returned, having inserted the one organization of the fixture file.
C13_Witness ==
  \E c \in DOMAIN calls :
    /\ calls[c].op = "seedEntity" /\ calls[c].entity = "organizations"
    /\ calls[c].body = ArrayBody(<<>>) /\ calls[c].pc = "done"
    /\ calls[c].src = "fixtures" /\ calls[c].res.inserted = 1


\* C14: no row of resources has a provider other than AWS, Azure or GCP; a
\* resources record with another provider is rejected by normalization, so
\* that no statement issued or still to issue carries it, and skipped is the
\* number of rejected records.
C14_ProviderValidated ==
  /\ \A r \in db.resources : r.provider \in {"AWS", "Azure", "GCP"}
  /\ \A c \in DOMAIN calls :
       LET call == calls[c]
           recs == SourceOf(call)
           badProvider == {i \in 1..Len(recs) : recs[i].provider \notin {"AWS", "Azure", "GCP"}}
       IN  (call.op = "seedEntity" /\ call.entity = "resources" /\ call.src # "none") =>
             /\ badProvider \subseteq Rejected("resources", recs)
             /\ call.skipped = Cardinality(Rejected("resources", recs))
             /\ \A k \in 1..Len(call.stmts) : \A i \in 1..Len(call.stmts[k].rows) :
                  call.stmts[k].rows[i].provider \in {"AWS", "Azure", "GCP"}
             /\ \A q \in 1..Len(call.queue) : \A i \in 1..Len(call.queue[q].batch) :
                  call.queue[q].batch[i].provider \in {"AWS", "Azure", "GCP"}
             /\ call.pc = "done" =>
                  /\ call.res.skipped = Cardinality(Rejected("resources", recs))
                  /\ call.res.inserted + call.res.updated = Len(recs) - Cardinality(Rejected("resources", recs))

\* C14 witness: a resources call with a DigitalOcean record and a valid one
\* has returned: one skipped, one inserted.
C14_Witness ==
  \E c \in DOMAIN calls :
    /\ calls[c].op = "seedEntity" /\ calls[c].pc = "done"
    /\ calls[c].body = ArrayBody(<<ResRec(NoId, "DigitalOcean"), Web01>>)
    /\ calls[c].res.skipped = 1 /\ calls[c].res.inserted = 1
    /\ db.resources # {}


\* The credential a users record supplies: its passwordHash when it carries
\* one, else the hash of its password when it carries one, else none.
Supplied(b) ==
  IF b.passwordHash \notin {UNDEF, NONSTR, ""} THEN b.passwordHash
  ELSE IF b.password \notin {UNDEF, NONSTR, ""} THEN BcryptHash(b.password)
  ELSE UNDEF

\* C15: when a users statement succeeds, the row of each of its records
\* stores the passwordHash the record carries, verbatim and without a call of
\* the hashing service; else the hash of the password it carries; else what
\* the row stored before, nothing when the row is new.
C15_CredentialChoice ==
  [][\A c \in DOMAIN calls :
       (IssuedNow(c) /\ Last(calls'[c].stmts).ok /\ TableOf(Last(calls'[c].stmts).sk) = "users") =>
         LET st == Last(calls'[c].stmts)
         IN  \A i \in 1..Len(st.batch) :
               LET b == st.batch[i]
                   old == {u \in db.users : Arbiter(st.sk, u) = Arbiter(st.sk, st.rows[i])}
               IN  /\ b.passwordHash \notin {UNDEF, NONSTR, ""} => ~HashInvoked(b)
                   /\ \E v \in db'.users :
                        /\ Arbiter(st.sk, v) = Arbiter(st.sk, st.rows[i])
                        /\ v.passwordHash =
                             IF Supplied(b) # UNDEF THEN Supplied(b)
                             ELSE IF old = {} THEN UNDEF
                             ELSE (CHOOSE u \in old : TRUE).passwordHash]_vars

\* C15 witness: a users call has stored, by id, the hash carried by a record
\* that carries a password too and, by email, the hash of the password of a
\* record whose passwordHash is empty.
C15_Witness ==
  \E c \in DOMAIN calls :
    /\ calls[c].pc = "done" /\ calls[c].entity = "users" /\ Len(calls[c].stmts) = 2
    /\ calls[c].stmts[1].batch[1].password = "pw1"
    /\ \E u \in db.users : u.email = "a@x.io" /\ u.passwordHash = "$2a$10$given"
    /\ \E u \in db.users : u.email = "b@x.io" /\ u.passwordHash = BcryptHash("pw2")


\* C16: in production a request to a seeding endpoint whose X-Seed-Token is
\* not SEED_ADMIN_TOKEN is answered 403, and a request answered 403 ran no
\* handler and never awaited the store; a request with the (non-empty) token
\* passes.  Outside production no request is answered 403.
C16_ProductionGuard ==
  \A c \in DOMAIN calls :
    LET call == calls[c]
        isProd == env.nodeEnv \in {"production", "Production", "PRODUCTION"}
    IN  call.req.route # "none" =>
          /\ (isProd /\ call.req.token # env.seedAdminToken) => Status(call) = 403
          /\ (isProd /\ Status(call) # 403) => call.req.token = env.seedAdminToken
          /\ (isProd /\ call.req.token = env.seedAdminToken /\ call.req.token # "") =>
               Status(call) # 403
          /\ Status(call) = 403 =>
               /\ call.op = "none" /\ call.io = 0 /\ call.stmts = <<>> /\ call.loaded = 0
               /\ db = call.db0
          /\ ~isProd => Status(call) # 403

\* C16 witness: in production a verify request with a wrong token was
\* answered 403 while the store holds rows.
C16_Witness ==
  \E c \in DOMAIN calls :
    /\ env.nodeEnv = "Production" /\ env.seedAdminToken = "s3cret"
    /\ calls[c].req.route = "verify" /\ calls[c].req.token = "wrong"
    /\ Status(calls[c]) = 403 /\ calls[c].io = 0 /\ db = SmallSeededDb


\* A body in which every organization and resource carries a UUIDv4 id; a
\* user carries one or, without id, is keyed by its email.
KeyedBody(entity, body) ==
  /\ body.arr /\ Len(body.recs) > 0
  /\ entity \in {"organizations", "resources"} =>
       \A i \in 1..Len(body.recs) : body.recs[i].id # NoId /\ body.recs[i].id # BadId
  /\ entity = "users" => \A i \in 1..Len(body.recs) : body.recs[i].id # BadId

\* C17: when a seedEntity call with a body keyed in this way has returned,
\* the next call of the same kind with the same body adds no row: at every
\* point of it each table has as many rows as when it began.
C17_RepetitionAddsNoRow ==
  \A c \in DOMAIN calls :
    LET call == calls[c]
    IN  ( /\ call.op = "seedEntity" /\ call.prev.op = "seedEntity" /\ call.prev.pc = "done"
          /\ call.entity = call.prev.entity /\ call.body = call.prev.body
          /\ KeyedBody(call.entity, call.body) )
        => \A t \in ENTITIES : Cardinality(db[t]) = Cardinality(call.db0[t])

\* C17 witness: a users body with an id-keyed and an email-keyed record was
\* seeded twice; the second call returned having updated both rows.
C17_Witness ==
  \E c \in DOMAIN calls :
    /\ calls[c].op = "seedEntity" /\ calls[c].pc = "done" /\ calls[c].prev.pc = "done"
    /\ calls[c].body = ArrayBody(<<UserRec(2, "b@x.io", NoId, UNDEF, UNDEF), AnnNoId>>)
    /\ calls[c].prev.body = calls[c].body /\ calls[c].prev.entity = "users"
    /\ calls[c].res.updated = 2 /\ Cardinality(db.users) = 2


\* C18: a verify request that has been answered reports, for each of the
\* three tables, the number of its rows, and as total their sum; from its
\* start on the store holds exactly the rows it held when the request began.
C18_VerifyCountsAndWritesNothing ==
  \A c \in DOMAIN calls :
    LET call == calls[c]
    IN  call.op = "verify" =>
          /\ db = call.db0
          /\ call.stmts = <<>>
          /\ call.pc = "done" =>
               /\ Status(call) = 200
               /\ \A t \in ENTITIES : call.counts[t] = Cardinality(db[t])
               /\ call.counts.total = Cardinality(db.organizations) + Cardinality(db.users)
                                      + Cardinality(db.resources)

\* C18 witness: a verify request on a store of one organization and three
\* resources was answered with the total 4.
C18_Witness ==
  \E c \in DOMAIN calls :
    /\ calls[c].op = "verify" /\ calls[c].pc = "done"
    /\ calls[c].counts = [organizations |-> 1, users |-> 0, resources |-> 3, total |-> 4]
    /\ db = SmallSeededDb


\* C19: a seedAll request without body, where no .projdefn directory is found
\* or the one found holds no file, issues no statement and, the store
\* answering ensureSchema, does not fail; it is answered 200 with three
\* results of zero counts and no errors, and zero totals.
C19_NothingToSeed ==
  \A c \in DOMAIN calls :
    LET call == calls[c]
    IN  (call.op = "seedAll" /\ call.payload = NoPayload /\ fs \in {NoProjdefn, EmptyProjdefn}) =>
          /\ call.pc # "failed" /\ call.stmts = <<>> /\ db = call.db0
          /\ \A k \in 1..Len(call.results) : call.results[k] = NoRes
          /\ call.pc = "done" =>
               /\ Status(call) = 200 /\ Len(call.results) = 3 /\ call.total = Zero3
               /\ call.loaded = 3

\* C19 witness: with an empty .projdefn directory a seedAll request without
\* body was answered with its three results.
C19_Witness ==
  \E c \in DOMAIN calls :
    /\ calls[c].op = "seedAll" /\ calls[c].payload = NoPayload /\ fs = EmptyProjdefn
    /\ calls[c].pc = "done" /\ Len(calls[c].results) = 3 /\ calls[c].total = Zero3


\* C20: when a seedAll call has returned, each of total.inserted,
\* total.updated and total.skipped is the sum of that field over the three
\* results of the call.
C20_TotalsAreSums ==
  \A c \in DOMAIN calls :
    LET call == calls[c]
    IN  (call.op = "seedAll" /\ call.pc = "done") =>
          /\ Len(call.results) = 3
          /\ call.total.inserted = call.results[1].inserted + call.results[2].inserted
                                   + call.results[3].inserted
          /\ call.total.updated = call.results[1].updated + call.results[2].updated
                                  + call.results[3].updated
          /\ call.total.skipped = call.results[1].skipped + call.results[2].skipped
                                  + call.results[3].skipped

\* C20 witness: a seedAll call on a store that held rows has returned with
\* an insert, an update and a skipped record among its results.
C20_Witness ==
  \E c \in DOMAIN calls :
    /\ calls[c].op = "seedAll" /\ calls[c].pc = "done"
    /\ calls[c].total.inserted >= 1 /\ calls[c].total.updated >= 1
    /\ calls[c].total.skipped >= 1


\* The statements of a call past normalization, issued or still to issue, in
\* the order of issue (a failed statement stays at the head of the queue).
Planned(call) ==
  [k \in 1..Len(call.stmts) |-> [sk |-> call.stmts[k].sk, batch |-> call.stmts[k].batch]]
  \o [k \in 1..Len(IF call.pc = "failed" THEN Tail(call.queue) ELSE call.queue) |->
        [sk |-> (IF call.pc = "failed" THEN Tail(call.queue) ELSE call.queue)[k].sk,
         batch |-> (IF call.pc = "failed" THEN Tail(call.queue) ELSE call.queue)[k].batch]]

\* The records of the statements of one kind, in order, each as the pair of
\* its id and email.
RECURSIVE PassRecords(_, _, _)
PassRecords(plan, sk, k) ==
  IF k > Len(plan) THEN <<>>
  ELSE (IF plan[k].sk = sk
        THEN [i \in 1..Len(plan[k].batch) |-> <<plan[k].batch[i].id, plan[k].batch[i].email>>]
        ELSE <<>>) \o PassRecords(plan, sk, k + 1)

\* The rows the statements of one kind returned as inserted (flag TRUE) or as
\* updated (flag FALSE).
RECURSIVE PassCount(_, _, _, _)
PassCount(stmts, sk, flag, k) ==
  IF k > Len(stmts) THEN 0
  ELSE (IF stmts[k].sk = sk
        THEN Cardinality({i \in 1..Len(stmts[k].flags) : stmts[k].flags[i] = flag})
        ELSE 0) + PassCount(stmts, sk, flag, k + 1)

\* C21: in a users call the records that pass validation and carry a UUIDv4
\* id are, in input order, the records of the id-keyed statements, and the
\* other valid records those of the email-keyed statements (without id), so
\* that each is in one pass; no id-keyed statement comes after an email-keyed
\* one; and the call returns as inserted and updated the sums of what the
\* statements of both passes returned.
C21_TwoPasses ==
  \A c \in DOMAIN calls :
    LET call == calls[c]
        recs == SourceOf(call)
        ok == SelectSeq(recs, LAMBDA r : NormRecord("users", r, {}).ok)
        withId == SelectSeq(ok, LAMBDA r : r.id # NoId /\ r.id # BadId)
        withoutId == SelectSeq(ok, LAMBDA r : r.id = NoId \/ r.id = BadId)
        plan == Planned(call)
    IN  (call.op = "seedEntity" /\ call.entity = "users" /\ call.src # "none") =>
          /\ PassRecords(plan, "usersById", 1) = [i \in 1..Len(withId) |-> <<withId[i].id, withId[i].email>>]
          /\ PassRecords(plan, "usersByEmail", 1) = [i \in 1..Len(withoutId) |-> <<NoId, withoutId[i].email>>]
          /\ \A i, j \in 1..Len(plan) :
               i < j => ~(plan[i].sk = "usersByEmail" /\ plan[j].sk = "usersById")
          /\ call.pc = "done" =>
               /\ call.res.inserted = PassCount(call.stmts, "usersById", TRUE, 1)
                                      + PassCount(call.stmts, "usersByEmail", TRUE, 1)
               /\ call.res.updated = PassCount(call.stmts, "usersById", FALSE, 1)
                                     + PassCount(call.stmts, "usersByEmail", FALSE, 1)

\* C21 witness: a users call whose body has an id-less record before one
\* with an id has returned after the id-keyed and then the email-keyed
\* statement, one row updated and one inserted.
C21_Witness ==
  \E c \in DOMAIN calls :
    /\ calls[c].pc = "done" /\ calls[c].body = ArrayBody(MixedUsers)
    /\ Len(calls[c].stmts) = 2
    /\ calls[c].stmts[1].sk = "usersById" /\ calls[c].stmts[2].sk = "usersByEmail"
    /\ calls[c].res.inserted = 1 /\ calls[c].res.updated = 1 /\ calls[c].res.skipped = 1


\* The statement a call issued in this step, if it issued one of kind sk.
IssuedOf(c, sk) == IssuedNow(c) /\ Last(calls'[c].stmts).sk = sk

\* The organization ids a users statement refers to all exist.
RefsExist(st, store) ==
  \A i \in 1..Len(st.rows) :
    st.rows[i].organizationId \in {NoId} \cup {o.id : o \in store.organizations}

\* C22: an email-keyed users statement gives each of its records an id no
\* row and no other record has.  When its emails differ from each other and
\* its references exist it succeeds, and when it succeeds then for each
\* record: if no row had its email, the table has a new row of the fresh id
\* and the record's columns; if a row had it, that row keeps id, email and
\* createdAt, has the record's name, role and organization_id and the
\* record's hash (its own when the record supplies none), and no row has the
\* fresh id.
C22_EmailKeyedUpsert ==
  [][\A c \in DOMAIN calls :
       IssuedOf(c, "usersByEmail") =>
         LET st == Last(calls'[c].stmts)
             n == Len(st.batch)
         IN  /\ \A i \in 1..n :
                  /\ st.batch[i].id = NoId
                  /\ st.rows[i].id >= GenBase
                  /\ \A u \in db.users : u.id # st.rows[i].id
                  /\ \A j \in 1..n : i # j => st.rows[i].id # st.rows[j].id
             /\ ((\A i, j \in 1..n : i # j => st.batch[i].email # st.batch[j].email)
                  /\ RefsExist(st, db)) => st.ok
             /\ st.ok =>
                  \A i \in 1..n :
                    LET b == st.batch[i]
                        old == {u \in db.users : u.email = b.email}
                    IN  IF old = {}
                        THEN /\ st.flags[i]
                             /\ [id |-> st.rows[i].id, email |-> b.email, name |-> b.name,
                                 role |-> b.role, organizationId |-> b.organizationId,
                                 createdAt |-> b.createdAt, passwordHash |-> Supplied(b)]
                                  \in db'.users
                        ELSE /\ ~st.flags[i]
                             /\ \A u \in old :
                                  [u EXCEPT !.name = b.name, !.role = b.role,
                                            !.organizationId = b.organizationId,
                                            !.passwordHash = IF Supplied(b) # UNDEF THEN Supplied(b)
                                                             ELSE u.passwordHash]
                                    \in db'.users
                             /\ \A v \in db'.users : v.id # st.rows[i].id]_vars

\* C22 witness: a record with a malformed id and the email of a stored row
\* was upserted by email: the row, inserted under a supplied id with another
\* name, role, time and no organization, has its id and time and the
\* record's name, role, organization and hash.
C22_Witness ==
  \E c \in DOMAIN calls :
    /\ calls[c].pc = "done"
    /\ calls[c].body = ArrayBody(<<ChangedUser(UserRec(BadId, "a@x.io", 3, "pw2", UNDEF))>>)
    /\ calls[c].stmts[1].sk = "usersByEmail" /\ calls[c].res.updated = 1
    /\ [id |-> 1, email |-> "a@x.io", name |-> "Bob", role |-> "admin", organizationId |-> 3,
        createdAt |-> Now, passwordHash |-> BcryptHash("pw2")] \in db.users


\* C23: when an id-keyed users statement succeeds, the row that had the id
\* of one of its records keeps id and createdAt, has the record's email,
\* name, role and organization_id, and has the record's hash when the record
\* yields one and its own hash otherwise; the record is counted as updated;
\* and every row whose id is none of the statement's is in the table as it
\* was.
C23_IdKeyedUpdate ==
  [][\A c \in DOMAIN calls :
       (IssuedOf(c, "usersById") /\ Last(calls'[c].stmts).ok) =>
         LET st == Last(calls'[c].stmts)
             ids == {st.batch[i].id : i \in 1..Len(st.batch)}
         IN  /\ \A i \in 1..Len(st.batch) :
                  LET b == st.batch[i]
                  IN  /\ st.rows[i].id = b.id
                      /\ \A u \in db.users :
                           u.id = b.id =>
                             /\ ~st.flags[i]
                             /\ \E v \in db'.users :
                                  /\ v.id = u.id /\ v.createdAt = u.createdAt
                                  /\ v.email = b.email /\ v.name = b.name /\ v.role = b.role
                                  /\ v.organizationId = b.organizationId
                                  /\ v.passwordHash = IF Supplied(b) # UNDEF THEN Supplied(b)
                                                      ELSE u.passwordHash
             /\ \A u \in db.users : u.id \notin ids => u \in db'.users
             /\ \A v \in db'.users : v.id \notin ids => v \in db.users]_vars

\* C23 witness: of two stored users the one of id 1 was updated by a record
\* with another name, role, organization and time and no credential: it has
\* them, its time and its hash, and the other row is as it was inserted.
C23_Witness ==
  \E c \in DOMAIN calls :
    /\ calls[c].pc = "done"
    /\ calls[c].body = ArrayBody(<<ChangedUser(UserRec(1, "a@x.io", 3, UNDEF, UNDEF))>>)
    /\ calls[c].res.updated = 1
    /\ db.users = {[id |-> 1, email |-> "a@x.io", name |-> "Bob", role |-> "admin",
                    organizationId |-> 3, createdAt |-> Now, passwordHash |-> BcryptHash("pw1")],
                   [id |-> 2, email |-> "b@x.io", name |-> "Ann", role |-> "user",
                    organizationId |-> NoId, createdAt |-> Now, passwordHash |-> UNDEF]}


\* C24: no step changes the id or the createdAt of a row of organizations or
\* resources; when an organizations or resources statement succeeds, the row
\* that had the id of one of its records differs from what it was in the
\* name only (organizations) or in provider, type, name, tags, cost and
\* status only (resources), which are the record's; a record is returned as
\* inserted exactly when no row had its id before the statement, and the
\* call's inserted grows by the number of these records.
C24_IdConflictSetList ==
  [][/\ \A tn \in {"organizations", "resources"} : \A u \in db[tn] :
          \E v \in db'[tn] : v.id = u.id /\ v.createdAt = u.createdAt
     /\ \A c \in DOMAIN calls :
          (IssuedNow(c) /\ Last(calls'[c].stmts).ok
             /\ Last(calls'[c].stmts).sk \in {"organizations", "resources"}) =>
            LET st == Last(calls'[c].stmts)
                new == {i \in 1..Len(st.rows) : \A u \in db[st.sk] : u.id # st.rows[i].id}
            IN  /\ \A i \in 1..Len(st.rows) :
                     /\ st.flags[i] <=> i \in new
                     /\ \A u \in db[st.sk] :
                          u.id = st.rows[i].id =>
                            IF st.sk = "organizations"
                            THEN [u EXCEPT !.name = st.rows[i].name] \in db'.organizations
                            ELSE [u EXCEPT !.provider = st.rows[i].provider,
                                           !.type = st.rows[i].type, !.name = st.rows[i].name,
                                           !.tags = st.rows[i].tags, !.cost = st.rows[i].cost,
                                           !.status = st.rows[i].status] \in db'.resources
                /\ calls'[c].inserted = calls[c].inserted + Cardinality(new)
                /\ calls'[c].updated = calls[c].updated + Len(st.rows) - Cardinality(new)]_vars

\* C24 witness: the stored organization and a stored resource were upserted
\* by records of their ids that differ in every column: both rows have their
\* time of before and the records' other columns.
C24_Witness ==
  \E c \in DOMAIN calls :
    /\ calls[c].pc = "done" /\ calls[c].prev.pc = "done"
    /\ calls[c].body = ArrayBody(<<ChangedResource(ResRec(5, "Azure"))>>)
    /\ calls[c].prev.body = ArrayBody(<<Changed(OrgRec(3, "Gamma"))>>)
    /\ calls[c].res.updated = 1 /\ calls[c].prev.res.updated = 1
    /\ db.organizations = {[id |-> 3, name |-> "Bob", createdAt |-> Now]}
    /\ [id |-> 5, provider |-> "Azure", type |-> "S3", name |-> "Bob", tags |-> "{env:prod}",
        cost |-> 7, status |-> "stopped", createdAt |-> Now] \in db.resources


\* The reason validation gives for a raw record, "" when it passes: the
\* first required field, in the order of the checks, that is no non-empty
\* string (an email: of email shape; a provider: one of the three).
Filled(v) == v \notin {UNDEF, NONSTR, ""}
ReasonOf(entity, r) ==
  IF entity = "organizations"
  THEN IF ~Filled(r.name) THEN "Invalid organization.name" ELSE ""
  ELSE IF entity = "users"
  THEN IF r.email \notin EmailShaped THEN "Invalid user.email"
       ELSE IF ~Filled(r.name) THEN "Invalid user.name"
       ELSE IF ~Filled(r.role) THEN "Invalid user.role"
       ELSE ""
  ELSE IF r.provider \notin {"AWS", "Azure", "GCP"}
       THEN "Invalid resource.provider (must be 'AWS'|'Azure'|'GCP')"
       ELSE IF ~Filled(r.type) THEN "Invalid resource.type"
       ELSE IF ~Filled(r.name) THEN "Invalid resource.name"
       ELSE IF ~Filled(r.status) THEN "Invalid resource.status"
       ELSE ""

\* The names of the records of all statements of a call, in order.
RECURSIVE PlannedNames(_, _)
PlannedNames(plan, k) ==
  IF k > Len(plan) THEN <<>>
  ELSE [i \in 1..Len(plan[k].batch) |-> <<plan[k].sk, plan[k].batch[i].name, plan[k].batch[i].createdAt>>]
       \o PlannedNames(plan, k + 1)

\* C25: a seedEntity call past normalization has one error for each record
\* of its source that fails validation by itself, whatever the records around
\* it: its 0-based index and its reason, the errors in the order of the
\* indexes; the other records, and only they, are in input order the records
\* of its statements (for users: of each pass); and the call has not failed
\* unless a statement did.  Scenario B returns {0, 0, 1, [{0, "Invalid
\* user.email"}]}.
C25_NormalizeAll ==
  \A c \in DOMAIN calls :
    LET call == calls[c]
        recs == SourceOf(call)
        bad == {i \in 1..Len(recs) : ReasonOf(call.entity, recs[i]) # ""}
        good == SelectSeq(recs, LAMBDA r : ReasonOf(call.entity, r) = "")
        plan == Planned(call)
        inPlan == Len(PlannedNames(plan, 1))
    IN  (call.op = "seedEntity" /\ call.entity \in ENTITIES /\ call.src # "none") =>
          /\ Len(call.errors) = Cardinality(bad)
          /\ \A k \in 1..Len(call.errors) :
               LET i == call.errors[k].index + 1
               IN  /\ i \in bad
                   /\ call.errors[k].error = ReasonOf(call.entity, recs[i])
                   /\ Cardinality({j \in bad : j < i}) = k - 1
          /\ call.skipped = Cardinality(bad)
          /\ inPlan = Len(good)
          /\ call.entity # "users" =>
               PlannedNames(plan, 1) =
                 [i \in 1..Len(good) |-> <<call.entity, good[i].name, toISODateOrNow(good[i].createdAt)>>]
          /\ call.entity = "users" =>
               \A sk \in {"usersById", "usersByEmail"} :
                 LET of == SelectSeq(good, LAMBDA r : (r.id # NoId /\ r.id # BadId) <=> sk = "usersById")
                 IN  PassRecords(plan, sk, 1) =
                       [i \in 1..Len(of) |-> <<IF sk = "usersById" THEN of[i].id ELSE NoId, of[i].email>>]
          /\ call.pc = "failed" => (call.stmts # <<>> /\ ~Last(call.stmts).ok)
          /\ (call.body = ArrayBody(ScenarioB) /\ Ended(call)) =>
               /\ call.pc = "done"
               /\ call.res = [inserted |-> 0, updated |-> 0, skipped |-> 1,
                              errors |-> <<[index |-> 0, error |-> "Invalid user.email"]>>]

\* C25 witness: a resources call whose body has four records that fail, each
\* on another field, around a valid one has returned: four errors by index,
\* one row inserted.
C25_Witness ==
  \E c \in DOMAIN calls :
    /\ calls[c].pc = "done" /\ calls[c].body = ArrayBody(BadResources)
    /\ calls[c].res.inserted = 1 /\ calls[c].res.skipped = 4
    /\ calls[c].res.errors =
         <<[index |-> 0, error |-> "Invalid resource.type"],
           [index |-> 1, error |-> "Invalid resource.name"],
           [index |-> 3, error |-> "Invalid resource.status"],
           [index |-> 4, error |-> "Invalid resource.provider (must be 'AWS'|'Azure'|'GCP')"]>>


\* The records of a source that pass validation and go to the upserter of
\* the statement kind sk.
GoodFor(entity, recs, sk) ==
  SelectSeq(recs, LAMBDA r :
    /\ ReasonOf(entity, r) = ""
    /\ sk = "usersById" => (r.id # NoId /\ r.id # BadId)
    /\ sk = "usersByEmail" => (r.id = NoId \/ r.id = BadId))

\* C26 as stated: a seed call whose records are all invalid, or whose source
\* is empty, has no interaction with the store at all.
C26_NoStoreInteraction ==
  \A c \in DOMAIN calls :
    LET call == calls[c]
    IN  ( /\ call.op = "seedEntity" /\ call.entity \in ENTITIES /\ call.src # "none"
          /\ \A i \in 1..Len(SourceOf(call)) : ReasonOf(call.entity, SourceOf(call)[i]) # "" )
        => (call.stmts = <<>> /\ call.io = 0)

\* C26: an upserter that is given no record issues no statement: a call has
\* no statement of a kind for which its source has no valid record, and no
\* statement without records.  A call whose records are all invalid, or whose
\* source is empty, returns zero inserted and updated and every record as
\* skipped, without an upsert statement and with the store as it was; its one
\* interaction with the store is the ensureSchema it awaited before it
\* looked at its records.
C26_NoUpsertWithoutValidRecord ==
  \A c \in DOMAIN calls :
    LET call == calls[c]
        recs == SourceOf(call)
        plan == Planned(call)
    IN  (call.op = "seedEntity" /\ call.entity \in ENTITIES /\ call.src # "none") =>
          /\ \A k \in 1..Len(plan) : plan[k].batch # <<>>
          /\ \A sk \in StatementKinds :
               (TableOf(sk) # call.entity \/ GoodFor(call.entity, recs, sk) = <<>>) =>
                 \A k \in 1..Len(plan) : plan[k].sk # sk
          /\ (\A i \in 1..Len(recs) : ReasonOf(call.entity, recs[i]) # "") =>
               /\ call.pc = "done" /\ call.stmts = <<>> /\ call.queue = <<>>
               /\ call.res.inserted = 0 /\ call.res.updated = 0
               /\ call.res.skipped = Len(recs)
               /\ db = call.db0
               /\ call.io = 1

\* C26 witness: a resources call without body, whose fixture file has no
\* array, and after it a users call whose one record is invalid have both
\* returned without a statement.
C26_Witness ==
  \E c \in DOMAIN calls :
    /\ calls[c].pc = "done" /\ calls[c].entity = "users" /\ calls[c].body = ArrayBody(ScenarioB)
    /\ calls[c].stmts = <<>> /\ calls[c].io = 1 /\ calls[c].res.skipped = 1
    /\ calls[c].prev.pc = "done" /\ calls[c].prev.entity = "resources"
    /\ calls[c].prev.body = NoBody /\ calls[c].prev.res = NoRes


\* What the files of a directory give for a kind: the arrays of the files, in
\* the order of enumeration, whose path names the kind and whose content is
\* an array or an object with an items array.
RECURSIVE ArraysOf(_, _, _)
ArraysOf(files, entity, k) ==
  IF k > Len(files) THEN <<>>
  ELSE (IF entity \in files[k].mentions /\ files[k].shape \in {"array", "items"}
        THEN files[k].items ELSE <<>>) \o ArraysOf(files, entity, k + 1)

\* C27: a seedEntity call that took its records from the fixtures works on
\* the arrays of the matching files of the directory, concatenated in the
\* order of enumeration, every record of every array, also one that another
\* file has too: it skips those of them that fail validation and the others
\* are, in that order, the records of its statements.  A matching file that
\* does not parse or has another shape adds nothing, and the files after it
\* are loaded; the call fails only when a statement fails.
C27_LoadConcatenates ==
  \A c \in DOMAIN calls :
    LET call == calls[c]
        items == ArraysOf(findProjdefnRoot(fs).files, call.entity, 1)
        good == SelectSeq(items, LAMBDA r : ReasonOf(call.entity, r) = "")
        plan == Planned(call)
    IN  (call.op = "seedEntity" /\ call.entity \in ENTITIES /\ call.src = "fixtures") =>
          /\ call.loaded = 1
          /\ call.skipped = Len(items) - Len(good)
          /\ Len(PlannedNames(plan, 1)) = Len(good)
          /\ call.entity # "users" =>
               PlannedNames(plan, 1) =
                 [i \in 1..Len(good) |-> <<call.entity, good[i].name, toISODateOrNow(good[i].createdAt)>>]
          /\ call.pc = "failed" => (call.stmts # <<>> /\ ~Last(call.stmts).ok)
          /\ call.pc = "done" =>
               call.res.inserted + call.res.updated + call.res.skipped = Len(items)

\* C27 witness: a resources request without body has returned where the
\* directory has three files of resources arrays, one of them named for
\* organizations too, and between them a file that does not parse and one of
\* another shape: three rows inserted, two of them from the same record, and
\* one record skipped.
C27_Witness ==
  \E c \in DOMAIN calls :
    /\ fs = ManyProjdefn /\ calls[c].op = "seedEntity" /\ calls[c].entity = "resources"
    /\ calls[c].src = "fixtures" /\ calls[c].pc = "done"
    /\ calls[c].res.inserted = 3 /\ calls[c].res.skipped = 1
    /\ Len(calls[c].stmts) = 1
    /\ [i \in 1..3 |-> calls[c].stmts[1].batch[i].name] = <<"web-01", "Default", "web-01">>


\* The rows all statements of a call returned with the given flag.
ReturnedAs(call, flag) ==
  PassCount(call.stmts, "organizations", flag, 1) + PassCount(call.stmts, "usersById", flag, 1)
  + PassCount(call.stmts, "usersByEmail", flag, 1) + PassCount(call.stmts, "resources", flag, 1)

\* C28: when a seedEntity call has returned, its inserted and updated are the
\* numbers of rows its statements returned as inserted and as not inserted,
\* together the number of the records of its source that pass validation,
\* and with skipped the number of the records of its source (a call of an
\* unsupported kind selects no source and counts nothing).
C28_EveryRecordCountedOnce ==
  \A c \in DOMAIN calls :
    LET call == calls[c]
        recs == IF call.src = "none" THEN <<>> ELSE SourceOf(call)
        passed == Cardinality({i \in 1..Len(recs) : ReasonOf(call.entity, recs[i]) = ""})
    IN  (call.op = "seedEntity" /\ call.pc = "done") =>
          /\ call.res.inserted = ReturnedAs(call, TRUE)
          /\ call.res.updated = ReturnedAs(call, FALSE)
          /\ call.res.inserted + call.res.updated = passed
          /\ call.res.skipped = Len(recs) - passed
          /\ call.res.inserted + call.res.updated + call.res.skipped = Len(recs)

\* C28 witness: the body of thirteen resources, two of them valid, was seeded
\* twice: the first call returned 2 inserted, the second 2 updated, both 11
\* skipped.
C28_Witness ==
  \E c \in DOMAIN calls :
    /\ calls[c].op = "seedEntity" /\ calls[c].pc = "done" /\ calls[c].body = ArrayBody(ManyBad)
    /\ calls[c].prev.body = ArrayBody(ManyBad) /\ calls[c].prev.pc = "done"
    /\ calls[c].prev.res.inserted = 2 /\ calls[c].prev.res.skipped = MaxErrors + 1
    /\ calls[c].res.inserted = 0 /\ calls[c].res.updated = 2
    /\ calls[c].res.skipped = MaxErrors + 1


\* The rows of table t an operation reported as inserted: the result of a
\* seedEntity call of that kind or the result for that kind of a seedAll call,
\* once it has returned; a failed operation and a verify request report none.
ReportedFor(call, t) ==
  IF call.pc # "done" THEN 0
  ELSE IF call.op = "seedEntity" THEN (IF call.entity = t THEN call.res.inserted ELSE 0)
  ELSE IF call.op = "seedAll" THEN call.results[KindRank(t)].inserted
  ELSE 0

\* The rows of table t the statements of an operation returned as inserted.
WrittenBy(call, t) ==
  IF t = "users"
  THEN PassCount(call.stmts, "usersById", TRUE, 1) + PassCount(call.stmts, "usersByEmail", TRUE, 1)
  ELSE PassCount(call.stmts, t, TRUE, 1)

RECURSIVE SumOver(_, _, _, _)
SumOver(Of(_, _), cs, S, t) ==
  IF S = {} THEN 0
  ELSE LET c == CHOOSE x \in S : TRUE
       IN  Of(cs[c], t) + SumOver(Of, cs, S \ {c}, t)

\* C29 as stated: when no operation is in progress, each table (empty at
\* first) has as many rows as the operations reported as inserted.
C29_GrowthIsReported ==
  \A t \in ENTITIES :
    (\A c \in DOMAIN calls : calls[c].pc \in {"idle", "done", "failed"}) =>
      Cardinality(db[t]) = SumOver(ReportedFor, calls, DOMAIN calls, t)

\* C29: no step of a seedEntity, seedAll or verify operation removes a row:
\* every id of a table stays in it.  Only a statement that succeeds adds
\* rows, as many as it returned as inserted, so that each table (empty at
\* first) has as many rows as the statements of all operations returned as
\* inserted.  An operation that has returned reports that number for each
\* table; one that failed reports nothing, and the rows of the statements it
\* completed before stay.
C29_NeverRemovesRows ==
  [][/\ \A t \in ENTITIES : \A u \in db[t] : \E v \in db'[t] : v.id = u.id
     /\ (\A c \in DOMAIN calls : ~IssuedNow(c)) => db' = db
     /\ \A c \in DOMAIN calls :
          IssuedNow(c) =>
            LET st == Last(calls'[c].stmts)
            IN  \A t \in ENTITIES :
                  Cardinality(db'[t]) =
                    Cardinality(db[t])
                    + (IF st.ok /\ TableOf(st.sk) = t
                       THEN Cardinality({i \in 1..Len(st.flags) : st.flags[i]}) ELSE 0)
     /\ \A t \in ENTITIES :
          /\ Cardinality(db'[t]) = SumOver(WrittenBy, calls', DOMAIN calls, t)
          /\ Cardinality(db'[t]) >= SumOver(ReportedFor, calls', DOMAIN calls, t)
          /\ \A c \in DOMAIN calls :
               calls'[c].pc = "done" => ReportedFor(calls'[c], t) = WrittenBy(calls'[c], t)]_vars

\* C29 witness: a seedAll call inserted its organization and then failed; a
\* verify request after it counted the row that no operation reported.
C29_Witness ==
  \E c1, c2 \in DOMAIN calls :
    /\ calls[c1].op = "seedAll" /\ calls[c1].pc = "failed"
    /\ Len(calls[c1].stmts) >= 1 /\ calls[c1].stmts[1].ok /\ calls[c1].stmts[1].flags = <<TRUE>>
    /\ calls[c2].op = "verify" /\ calls[c2].pc = "done" /\ calls[c2].counts.organizations = 1
    /\ Cardinality(db.organizations) = 1


\* C30: where NODE_ENV is production in any case of letters and
\* SEED_ADMIN_TOKEN is unset or empty, every request to a seeding endpoint is
\* answered 403, with no X-Seed-Token header, an empty one or any value: no
\* handler runs, the store is not awaited and holds what it held.
C30_EmptyTokenRejectsAll ==
  \A c \in DOMAIN calls :
    LET call == calls[c]
    IN  ( /\ call.req.route \in {"seedOne", "seedAll", "verify"}
          /\ env.nodeEnv \in {"production", "Production", "PRODUCTION"}
          /\ env.seedAdminToken = "" )
        => /\ Status(call) = 403 /\ call.pc = "done"
           /\ call.op = "none" /\ call.io = 0 /\ call.stmts = <<>> /\ call.loaded = 0
           /\ call.counts = NoCounts
           /\ db = call.db0

\* C30 witness: in production without SEED_ADMIN_TOKEN a seedAll request
\* without X-Seed-Token header was answered 403.
C30_Witness ==
  \E c \in DOMAIN calls :
    /\ env.nodeEnv = "PRODUCTION" /\ env.seedAdminToken = ""
    /\ calls[c].req.route = "seedAll" /\ calls[c].req.token = ""
    /\ Status(calls[c]) = 403 /\ calls[c].io = 0

=============================================================================
